---- MODULE Spec2Model ----
(***************************************************************************)
(* A model of the workflow execution engine of mini-n8n-engine:            *)
(*   - WorkflowEngine.getExecutionOrder (Kahn's algorithm),                *)
(*   - WorkflowEngine.addLog and WorkflowEngine.executeWorkflow, one step  *)
(*     per segment of code between two awaits,                             *)
(*   - MemStorage.createExecution / updateExecution,                       *)
(*   - the routes POST /api/workflows/:id/execute and                      *)
(*     POST /api/executions/:id/stop.                                      *)
(* Timestamps are never read by the code. A log entry and an output record  *)
(* hold, in place of the time they were made at, the execution whose run   *)
(* made them (madeBy); completedAt holds the name of the write that set it. *)
(***************************************************************************)
EXTENDS Integers, Sequences, FiniteSets, TLC

\* ------------------------------------------------------------------ bounds
\* Workflows of the scheduling specification (SpecOrder); their connections
\* reference ids of the node list.
OrdMaxNodes == 3
OrdMaxConns == 2
\* Workflows of the run-loop specification (Spec).
MaxNodes == 2
MaxConns == 2
\* Workflows of the run-loop specification with fairness (FairSpec).
LiveMaxNodes == 2
LiveMaxConns == 1

\* Workflows of the specification of one run without stop request (SpecFlow);
\* their connections reference ids of the node list.
FlowMaxNodes == 3
FlowMaxConns == 2
\* Workflows of the specification of runs over node parameters (SpecParams);
\* their connections reference ids of the node list.
ParamMaxNodes == 2
ParamMaxConns == 1
\* Workflows of the specification of two concurrent runs (SpecPair).
PairMaxNodes == 1
PairMaxConns == 1

\* Workflows of the specification of the client engine (SpecClient).
ClientMaxNodes == 2
ClientMaxConns == 1

\* The conditions and the messages of the specification of single executor
\* calls (SpecExec) have at most this many lexemes.
CondMaxLen == 3
MsgMaxLen == 2

\* Workflows of the specification of the three schedulers (SpecSched).
SchedMaxNodes == 2
SchedMaxConns == 2

\* Workflows of the specification of getExecutionOrder step by step (SpecKahn).
KahnMaxNodes == 2
KahnMaxConns == 2

\* The workflows of the runs with Branch nodes (SpecBranch).
BranchMaxNodes == 2
BranchMaxConns == 2

\* The workflows of the runs with workflow edits (SpecEdit): the one stored at
\* first, and those sent to the PUT route.
EditMaxNodes == 2
EditMaxConns == 1
UpdateMaxNodes == 1
UpdateMaxConns == 0

\* The connections and the records of a result list of the specification of
\* the input of a node (SpecGather).
GatherMaxConns == 2
GatherMaxRecords == 1

\* Node ids are taken from this pool; Ghost is an id no node list contains.
IdPool == <<"n1", "n2", "n3", "n4", "n5", "n6">>
Ghost == "ghost"

\* ---------------------------------------------------------------- helpers
Range(s) == {s[i] : i \in DOMAIN s}

SeqsUpTo(S, n) == UNION {[1..k -> S] : k \in 0..n}

Max(S) == CHOOSE x \in S : \A y \in S : y <= x

\* F applied to the value of v. LET x == v IN F(x) means the same; TLC computes
\* a LET definition again at every use while it evaluates ENABLED, and the
\* variable of a set constructor once.
With(v, F(_)) == CHOOSE y \in {F(x) : x \in {v}} : TRUE

\* Position of the first occurrence of x in s, 0 when absent.
IndexOf(s, x) == IF \E i \in DOMAIN s : s[i] = x
                 THEN CHOOSE i \in DOMAIN s : s[i] = x /\ \A j \in 1..(i-1) : s[j] # x
                 ELSE 0

\* ------------------------------------------------- shared/schema.ts types
NodeTypes == {"StartNode", "FetchApiNode", "LogMessageNode", "IfNode"}

Statuses == {"running", "completed", "failed", "stopped"}

Terminal == {"completed", "failed", "stopped"}

\* The value of a key an object does not have.
Undefined == "undefined"

\* The params of a node as its executor reads them (nodeConfig.params || {}):
\* url is Undefined without the key. A configured FetchApiNode has a url.
SomeUrl == "https://host/path"
ConfiguredParams(type) == [url |-> IF type = "FetchApiNode" THEN SomeUrl ELSE Undefined]

\* A node list as the ids' first occurrences come in pool order: every node
\* list is one of these up to a renaming of the ids.
IndexLists(n) ==
    {s \in UNION {[1..k -> 1..n] : k \in 1..n} :
        /\ s[1] = 1
        /\ \A i \in 2..Len(s) : s[i] <= Max({s[j] : j \in 1..(i-1)}) + 1}

NodeLists(n, types) ==
    UNION {{[i \in DOMAIN s |-> [id |-> IdPool[s[i]], type |-> t[i],
                                 params |-> ConfiguredParams(t[i])]] :
               t \in [DOMAIN s -> types]} : s \in IndexLists(n)}

NodeIdsOf(nodes) == {nodes[i].id : i \in DOMAIN nodes}

\* Connection lists over the ids of the node list and the ids of unknown.
ConnLists(nodes, m, unknown) ==
    SeqsUpTo([from : NodeIdsOf(nodes) \cup unknown, to : NodeIdsOf(nodes) \cup unknown], m)

Workflows(n, m, types, unknown) ==
    UNION {{[nodes |-> ns, connections |-> cs] : cs \in ConnLists(ns, m, unknown)} :
              ns \in NodeLists(n, types)}

\* The workflow MemStorage is constructed with.
SampleWorkflow ==
    [nodes |-> <<[id |-> "start-node", type |-> "StartNode",
                  params |-> ConfiguredParams("StartNode")],
                 [id |-> "fetch-node", type |-> "FetchApiNode",
                  params |-> ConfiguredParams("FetchApiNode")],
                 [id |-> "log-node", type |-> "LogMessageNode",
                  params |-> ConfiguredParams("LogMessageNode")]>>,
     connections |-> <<[from |-> "start-node", to |-> "fetch-node"],
                       [from |-> "fetch-node", to |-> "log-node"]>>]

\* ------------------------------------- WorkflowEngine.getExecutionOrder
\* The keys of a Map filled by set(node.id, ...) over the node list: the
\* distinct ids in the order of their first insertion.
RECURSIVE MapKeys(_)
MapKeys(nodes) ==
    IF nodes = <<>> THEN <<>>
    ELSE With(MapKeys(SubSeq(nodes, 1, Len(nodes) - 1)),
              LAMBDA init : IF nodes[Len(nodes)].id \in Range(init)
                            THEN init
                            ELSE Append(init, nodes[Len(nodes)].id))

\* graph.has(conn.from) && graph.has(conn.to)
ValidConnection(nodes, conn) ==
    conn.from \in NodeIdsOf(nodes) /\ conn.to \in NodeIdsOf(nodes)

\* graph.get(id): the 'to' ids pushed for the connections leaving id, in
\* connection-list order.
RECURSIVE Neighbors(_, _)
Neighbors(connections, id) ==
    IF connections = <<>> THEN <<>>
    ELSE LET rest == Neighbors(Tail(connections), id)
         IN  IF Head(connections).from = id
             THEN <<Head(connections).to>> \o rest
             ELSE rest

\* Faulty variant of InDegrees: the degree is counted at conn.from instead of conn.to.
InDegreesOfFrom(nodes, connections) ==
    [id \in NodeIdsOf(nodes) |->
        Cardinality({i \in DOMAIN connections : connections[i].from = id})]

\* inDegree after the connection loop.
InDegrees(nodes, connections) ==
    [id \in NodeIdsOf(nodes) |->
        Cardinality({i \in DOMAIN connections : connections[i].to = id})]

\* Faulty variant of ZeroDegree: the seeds are taken from the last key to the first.
RECURSIVE ZeroDegreeReversed(_, _)
ZeroDegreeReversed(keys, inDegree) ==
    IF keys = <<>> THEN <<>>
    ELSE IF inDegree[Head(keys)] = 0
         THEN ZeroDegreeReversed(Tail(keys), inDegree) \o <<Head(keys)>>
         ELSE ZeroDegreeReversed(Tail(keys), inDegree)

\* The seeds: ids of in-degree zero in Map iteration (insertion) order.
RECURSIVE ZeroDegree(_, _)
ZeroDegree(keys, inDegree) ==
    IF keys = <<>> THEN <<>>
    ELSE IF inDegree[Head(keys)] = 0
         THEN <<Head(keys)>> \o ZeroDegree(Tail(keys), inDegree)
         ELSE ZeroDegree(Tail(keys), inDegree)

\* Faulty variant of ProcessNeighbors: a neighbour is enqueued at every decrement.
RECURSIVE ProcessNeighborsPushesAll(_, _, _)
ProcessNeighborsPushesAll(neighbors, inDegree, queue) ==
    IF neighbors = <<>> THEN [inDegree |-> inDegree, queue |-> queue]
    ELSE With([inDegree EXCEPT ![Head(neighbors)] = @ - 1],
              LAMBDA dec : ProcessNeighborsPushesAll(Tail(neighbors), dec,
                                                     Append(queue, Head(neighbors))))

\* The inner loop over graph.get(nodeId): decrement, enqueue on zero.
RECURSIVE ProcessNeighbors(_, _, _)
ProcessNeighbors(neighbors, inDegree, queue) ==
    IF neighbors = <<>> THEN [inDegree |-> inDegree, queue |-> queue]
    ELSE With([inDegree EXCEPT ![Head(neighbors)] = @ - 1],
              LAMBDA dec : ProcessNeighbors(Tail(neighbors), dec,
                                            IF dec[Head(neighbors)] = 0
                                            THEN Append(queue, Head(neighbors))
                                            ELSE queue))

\* The while loop: shift the queue, push to executionOrder, process neighbours.
RECURSIVE KahnLoop(_, _, _, _)
KahnLoop(connections, queue, executionOrder, inDegree) ==
    IF queue = <<>> THEN executionOrder
    ELSE With(ProcessNeighbors(Neighbors(connections, Head(queue)), inDegree, Tail(queue)),
              LAMBDA step : KahnLoop(connections, step.queue,
                                     Append(executionOrder, Head(queue)), step.inDegree))

ErrInvalid == "Invalid connection"
ErrCycle == "Workflow contains a cycle and cannot be executed"
NoError == "none"

\* Faulty variant of GetExecutionOrder: the endpoints are not checked. A connection
\* from an unknown id is skipped by graph.get(conn.from)?.push, one to an
\* unknown id makes a new inDegree key.
GetExecutionOrderUnchecked(nodes, connections) ==
    LET inDegree == [id \in NodeIdsOf(nodes) \cup {connections[i].to : i \in DOMAIN connections} |->
                        Cardinality({i \in DOMAIN connections : connections[i].to = id})]
        order == KahnLoop(SelectSeq(connections, LAMBDA c : c.from \in NodeIdsOf(nodes)),
                          ZeroDegree(MapKeys(nodes), inDegree), <<>>, inDegree)
    IN  IF Len(order) # Len(nodes)
        THEN [error |-> ErrCycle, order |-> <<>>]
        ELSE [error |-> NoError, order |-> order]

\* Faulty variant of GetExecutionOrder: the cycle check is dropped.
GetExecutionOrderNoCycleCheck(nodes, connections) ==
    IF \E i \in DOMAIN connections : ~ValidConnection(nodes, connections[i])
    THEN [error |-> ErrInvalid, order |-> <<>>]
    ELSE [error |-> NoError,
          order |-> KahnLoop(connections,
                             ZeroDegree(MapKeys(nodes), InDegrees(nodes, connections)),
                             <<>>, InDegrees(nodes, connections))]

\* Faulty variant of GetExecutionOrder: the nodes are returned in node-list order.
GetExecutionOrderNodeList(nodes, connections) ==
    IF \E i \in DOMAIN connections : ~ValidConnection(nodes, connections[i])
    THEN [error |-> ErrInvalid, order |-> <<>>]
    ELSE LET order == KahnLoop(connections,
                               ZeroDegree(MapKeys(nodes), InDegrees(nodes, connections)),
                               <<>>, InDegrees(nodes, connections))
         IN  IF Len(order) # Len(nodes)
             THEN [error |-> ErrCycle, order |-> <<>>]
             ELSE [error |-> NoError, order |-> MapKeys(nodes)]

\* Faulty variant of GetExecutionOrder: the length of the order is compared with the
\* number of keys of the graph, not with nodes.length.
GetExecutionOrderKeyCount(nodes, connections) ==
    IF \E i \in DOMAIN connections : ~ValidConnection(nodes, connections[i])
    THEN [error |-> ErrInvalid, order |-> <<>>]
    ELSE LET order == KahnLoop(connections,
                               ZeroDegree(MapKeys(nodes), InDegrees(nodes, connections)),
                               <<>>, InDegrees(nodes, connections))
         IN  IF Len(order) # Len(MapKeys(nodes))
             THEN [error |-> ErrCycle, order |-> <<>>]
             ELSE [error |-> NoError, order |-> order]

\* getExecutionOrder: the order, or the error it throws.
GetExecutionOrder(nodes, connections) ==
    IF \E i \in DOMAIN connections : ~ValidConnection(nodes, connections[i])
    THEN [error |-> ErrInvalid, order |-> <<>>]
    ELSE LET order == KahnLoop(connections,
                               ZeroDegree(MapKeys(nodes), InDegrees(nodes, connections)),
                               <<>>, InDegrees(nodes, connections))
         IN  IF Len(order) # Len(nodes)
             THEN [error |-> ErrCycle, order |-> <<>>]
             ELSE [error |-> NoError, order |-> order]

\* The workflows of the run-loop specifications. executeWorkflow reads a node's
\* type only after getExecutionOrder has returned, so a workflow on which it
\* throws is drawn with one assignment of types, and every other workflow with
\* each assignment over the given types.
Retyped(wf, types) ==
    {[nodes |-> [i \in DOMAIN wf.nodes |-> [id |-> wf.nodes[i].id, type |-> t[i],
                                            params |-> ConfiguredParams(t[i])]],
      connections |-> wf.connections] : t \in [DOMAIN wf.nodes -> types]}

RunWorkflows(n, m, types) ==
    UNION {IF GetExecutionOrder(wf.nodes, wf.connections).error = NoError
           THEN Retyped(wf, types)
           ELSE {wf} : wf \in Workflows(n, m, {"StartNode"}, {Ghost})}

\* wf with all its nodes of one type, for each of the given types.
UniformlyTyped(wf, types) ==
    {[nodes |-> [i \in DOMAIN wf.nodes |-> [id |-> wf.nodes[i].id, type |-> t,
                                            params |-> ConfiguredParams(t)]],
      connections |-> wf.connections] : t \in types}

\* The workflows whose connections reference ids of the node list, those
\* getExecutionOrder returns an order for with all nodes StartNode (no
\* executor can throw) and with all nodes FetchApiNode (each can).
KnownWorkflows(n, m, types) ==
    UNION {IF GetExecutionOrder(wf.nodes, wf.connections).error = NoError
           THEN UniformlyTyped(wf, types)
           ELSE {wf} : wf \in Workflows(n, m, {"StartNode"}, {})}

\* The urls a FetchApiNode is given in the workflows of SpecParams: no url
\* key, the empty string, a url.
ParamUrls == {Undefined, "", SomeUrl}

\* wf with each assignment of the urls to its FetchApiNode nodes.
Reparametrized(wf, urls) ==
    {[nodes |-> [i \in DOMAIN wf.nodes |->
                    [wf.nodes[i] EXCEPT !.params.url =
                        IF wf.nodes[i].type = "FetchApiNode" THEN u[i] ELSE Undefined]],
      connections |-> wf.connections] :
        u \in [DOMAIN wf.nodes -> urls]}

ParamWorkflows(n, m, types, urls) ==
    UNION {IF GetExecutionOrder(wf.nodes, wf.connections).error = NoError
           THEN UNION {Reparametrized(t, urls) : t \in Retyped(wf, types)}
           ELSE {wf} : wf \in Workflows(n, m, {"StartNode"}, {})}

\* ------------------------------------------------------ graph vocabulary
\* The ids reachable from id by one or more connections.
RECURSIVE ReachFrom(_, _)
ReachFrom(connections, seen) ==
    LET next == seen \cup {connections[i].to : i \in {j \in DOMAIN connections :
                                                      connections[j].from \in seen}}
    IN  IF next = seen THEN seen ELSE ReachFrom(connections, next)

Successors(connections, id) ==
    ReachFrom(connections, {connections[i].to : i \in {j \in DOMAIN connections :
                                                       connections[j].from = id}})

HasCycle(connections) ==
    \E i \in DOMAIN connections :
        connections[i].from \in Successors(connections, connections[i].from)

AllValid(nodes, connections) ==
    \A i \in DOMAIN connections : ValidConnection(nodes, connections[i])

UniqueIds(nodes) == \A i, j \in DOMAIN nodes : nodes[i].id = nodes[j].id => i = j

\* ------------------------------------------------------------------ state
VARIABLES
    workflow,     \* the workflow held by MemStorage.workflows
    schedOut,     \* what getExecutionOrder gave for the workflow; SpecKahn: its locals
    executions,   \* MemStorage.executions: id -> Execution, NoExec when absent
    run,          \* per execution, the frame of its executeWorkflow call
    execLimit,    \* execute requests the behaviour admits
    invoked,      \* history: per execution, the nodes whose executor was called
    returned,     \* history: per execution, the nodes whose executor returned
    threw,        \* history: per execution, the nodes whose executor failed
    client,       \* the frame of an executeWorkflow call of the client engine
    call          \* one call of a node executor's execute, and what came of it

vars == <<workflow, schedOut, executions, run, execLimit, invoked, returned, threw,
          client, call>>

ExecPool == <<"e1", "e2">>
ExecIds == Range(ExecPool)
NotComputed == [error |-> "not computed", order |-> <<>>]
\* An empty results object, and the results key of an execution never given one.
EmptyMap == [n \in {} |-> <<>>]
NoResults == [present |-> FALSE, entries |-> EmptyMap]
NoExec == [workflowId |-> Undefined, status |-> "absent", completedAt |-> Undefined,
           currentNodeId |-> Undefined, logs |-> <<>>, results |-> NoResults]
IdleRun == [pc |-> "idle", executionId |-> Undefined,
            wf |-> [nodes |-> <<>>, connections |-> <<>>],
            executionOrder |-> <<>>, done |-> 0, executionResults |-> EmptyMap,
            execution |-> NoExec, haveRead |-> FALSE, inputData |-> <<>>,
            httpCalls |-> 0, error |-> NoError]

\* The client engine has no storage: what a run shows of itself are its
\* onProgress calls and its console.error lines.
IdleClient == [pc |-> "idle", executionOrder |-> <<>>, done |-> 0,
               executionResults |-> EmptyMap, inputData |-> <<>>,
               progress |-> <<>>, consoleErrors |-> <<>>, invoked |-> <<>>,
               error |-> NoError]

\* No executor call is under way.
NoCall == [pc |-> "none"]

\* --------------------------------------------------------- MemStorage
\* { ...existing, ...updateData }
Merge(existing, updateData) ==
    [k \in DOMAIN existing |-> IF k \in DOMAIN updateData THEN updateData[k] ELSE existing[k]]

\* Faulty variant of UpdateExecution: the update goes to the execution created
\* last, whatever the id.
UpdateExecutionLatest(store, id, updateData) ==
    LET last == CHOOSE e \in ExecIds :
                    /\ store[e].status # "absent"
                    /\ \A f \in ExecIds : store[f].status # "absent"
                                              => IndexOf(ExecPool, f) <= IndexOf(ExecPool, e)
    IN  IF store[id].status = "absent" THEN store
        ELSE [store EXCEPT ![last] = Merge(store[last], updateData)]

\* updateExecution: an unknown id changes nothing.
UpdateExecution(store, id, updateData) ==
    IF store[id].status = "absent" THEN store
    ELSE [store EXCEPT ![id] = Merge(store[id], updateData)]

\* createExecution({workflowId, status: "running"}): logs: [], no completedAt,
\* currentNodeId or results key.
CreateExecution(store, id, workflowId) ==
    [store EXCEPT ![id] = [workflowId |-> workflowId, status |-> "running",
                           completedAt |-> Undefined, currentNodeId |-> Undefined,
                           logs |-> <<>>, results |-> NoResults]]

\* --------------------------------------------------- the node executors
\* The registry of the server engine.
NodeRegistry == {"StartNode", "FetchApiNode", "LogMessageNode", "IfNode"}

\* StartNode and LogMessageNode have no throwing path; FetchApiNode throws on a
\* missing url or a failed request, IfNode on a condition that does not evaluate.
CanThrow(type) == type \in {"FetchApiNode", "IfNode"}

\* Faulty variant of Falsy: only a missing value counts.
FalsyUndefinedOnly(v) == v = Undefined

\* !v for a value that is a string or undefined.
Falsy(v) == v \in {Undefined, ""}

\* FetchApiNode.execute, lines 17-21: without a url it throws before the
\* request is made.
ErrUrlRequired == "URL is required for HTTP request"
ErrNodeFailed == "node error"
MissingUrl(node) == node.type = "FetchApiNode" /\ Falsy(node.params.url)

\* FetchApiNode.execute, line 24: the request is made in the call of execute.
IssuesHttpCall(node) == node.type = "FetchApiNode" /\ ~Falsy(node.params.url)

\* The message of the error an executor of the node throws.
ThrownBy(node) == IF MissingUrl(node) THEN ErrUrlRequired ELSE ErrNodeFailed

\* Every executor returns a list of exactly one record. A record's payload is
\* kept as its provenance: the node that made it and the record it was given
\* as inputData[0] (StartNode ignores its input).
OutputOf(node, inputData) ==
    <<[producer |-> node.id,
       inputFrom |-> IF node.type = "StartNode" \/ inputData = <<>>
                     THEN Undefined ELSE inputData[1].producer]>>

\* IfNode.execute, lines 79-84: the one record returned carries outputPath,
\* "true" or "false" as the condition evaluates on the first input record.
\* The outputs an executor may return for the node.
OutputsOf(node, inputData) ==
    IF node.type = "IfNode"
    THEN {<<[producer |-> node.id, inputFrom |-> OutputOf(node, inputData)[1].inputFrom,
             outputPath |-> path]>> : path \in {"true", "false"}}
    ELSE {OutputOf(node, inputData)}

\* The records of an executor's output as made in the run of executionId.
Stamped(outputData, executionId) ==
    [i \in DOMAIN outputData |->
        [f \in DOMAIN outputData[i] \cup {"madeBy"} |->
            IF f = "madeBy" THEN executionId ELSE outputData[i][f]]]

\* The record {} given to a node without incoming connections.
EmptyRecord == [producer |-> Undefined, inputFrom |-> Undefined]

\* workflow.nodes.find(n => n.id === nodeId)
FindNode(nodes, nodeId) == nodes[IndexOf([i \in DOMAIN nodes |-> nodes[i].id], nodeId)]

\* Faulty variant of PushResults: the results of a node are taken once, however
\* many connections come from it.
RECURSIVE PushResultsOncePerSource(_, _)
PushResultsOncePerSource(inputConnections, executionResults) ==
    IF inputConnections = <<>> THEN <<>>
    ELSE (IF Head(inputConnections).from \in DOMAIN executionResults
          THEN executionResults[Head(inputConnections).from] ELSE <<>>)
         \o PushResultsOncePerSource(
                SelectSeq(Tail(inputConnections),
                          LAMBDA c : c.from # Head(inputConnections).from),
                executionResults)

\* Faulty variant of PushResults: the connections are taken from the last to the first.
RECURSIVE PushResultsReversed(_, _)
PushResultsReversed(inputConnections, executionResults) ==
    IF inputConnections = <<>> THEN <<>>
    ELSE PushResultsReversed(Tail(inputConnections), executionResults)
         \o (IF Head(inputConnections).from \in DOMAIN executionResults
             THEN executionResults[Head(inputConnections).from] ELSE <<>>)

\* Lines 209-220: the results of the 'from' node of every connection into
\* nodeId, in connection-list order; one empty record without such a connection.
RECURSIVE PushResults(_, _)
PushResults(inputConnections, executionResults) ==
    IF inputConnections = <<>> THEN <<>>
    ELSE (IF Head(inputConnections).from \in DOMAIN executionResults
          THEN executionResults[Head(inputConnections).from] ELSE <<>>)
         \o PushResults(Tail(inputConnections), executionResults)

\* Faulty variant of GatherInput: the empty record is given whenever nothing
\* was gathered.
GatherInputDefaultWhenEmpty(connections, executionResults, nodeId) ==
    LET inputConnections == SelectSeq(connections, LAMBDA c : c.to = nodeId)
    IN  IF PushResults(inputConnections, executionResults) # <<>>
        THEN PushResults(inputConnections, executionResults)
        ELSE <<EmptyRecord>>

\* Faulty variant of GatherInput: a node without incoming connection gets no record.
GatherInputNoDefault(connections, executionResults, nodeId) ==
    PushResults(SelectSeq(connections, LAMBDA c : c.to = nodeId), executionResults)

GatherInput(connections, executionResults, nodeId) ==
    LET inputConnections == SelectSeq(connections, LAMBDA c : c.to = nodeId)
    IN  IF Len(inputConnections) > 0
        THEN PushResults(inputConnections, executionResults)
        ELSE <<EmptyRecord>>


\* ------------------------------------------------- scheduling on its own
InitOrder ==
    /\ workflow \in Workflows(OrdMaxNodes, OrdMaxConns, {"StartNode"}, {})
    /\ schedOut = NotComputed
    /\ executions = [e \in ExecIds |-> NoExec]
    /\ run = [e \in ExecIds |-> IdleRun]
    /\ execLimit = 0
    /\ invoked = [e \in ExecIds |-> <<>>]
    /\ returned = [e \in ExecIds |-> {}]
    /\ threw = [e \in ExecIds |-> {}]
    /\ client = IdleClient
    /\ call = NoCall

ComputeOrder ==
    /\ schedOut = NotComputed
    /\ schedOut' = GetExecutionOrder(workflow.nodes, workflow.connections)
    /\ UNCHANGED <<client, call, workflow, executions, run, execLimit, invoked, returned, threw>>

NextOrder == ComputeOrder

SpecOrder == InitOrder /\ [][NextOrder]_vars

\* ------------------------------------------- WorkflowEngine.executeWorkflow
\* The types the node lists of the run-loop specifications draw from: one
\* executor that cannot throw and one that can.
RunTypes == {"StartNode", "FetchApiNode"}

Started == {e \in ExecIds : executions[e].status # "absent"}

\* Faulty variant of CurrentNodeId: the order is walked from its end.
CurrentNodeIdFromEnd(r) == r.executionOrder[Len(r.executionOrder) - r.done]

\* The node of the current loop iteration.
CurrentNodeId(r) == r.executionOrder[r.done + 1]

\* The control points at which executeWorkflow is inside an addLog call, with
\* the entry that call appends and the control point that follows it.
LogPoints == {"log_starting", "log_name", "log_order", "log_executing", "log_output",
              "log_error", "log_finished", "log_wf_failed"}

LogEntry(r) ==
    CASE r.pc = "log_starting" ->
            [level |-> "info", message |-> "--- Workflow Starting ---", nodeId |-> Undefined,
             detail |-> Undefined, madeBy |-> r.executionId]
      [] r.pc = "log_name" ->
            [level |-> "info", message |-> "Executing workflow", nodeId |-> Undefined,
             detail |-> Undefined, madeBy |-> r.executionId]
      [] r.pc = "log_order" ->
            [level |-> "info", message |-> "Execution order", nodeId |-> Undefined,
             detail |-> Undefined, madeBy |-> r.executionId]
      [] r.pc = "log_executing" ->
            [level |-> "info", message |-> "Executing Node", nodeId |-> CurrentNodeId(r),
             detail |-> Undefined, madeBy |-> r.executionId]
      [] r.pc = "log_output" ->
            [level |-> "info", message |-> "Output", nodeId |-> CurrentNodeId(r),
             detail |-> r.executionResults[CurrentNodeId(r)], madeBy |-> r.executionId]
      [] r.pc = "log_error" ->
            [level |-> "error", message |-> "ERROR", nodeId |-> CurrentNodeId(r),
             detail |-> r.error, madeBy |-> r.executionId]
      [] r.pc = "log_finished" ->
            [level |-> "info", message |-> "--- Workflow Finished Successfully ---",
             nodeId |-> Undefined,
             detail |-> Undefined, madeBy |-> r.executionId]
      [] r.pc = "log_wf_failed" ->
            [level |-> "error", message |-> "Workflow execution failed", nodeId |-> Undefined,
             detail |-> r.error, madeBy |-> r.executionId]

\* Faulty variant of AfterLog: the inner catch does not return, the loop goes on.
AfterLogContinue(pc) ==
    CASE pc = "log_starting" -> "log_name"
      [] pc = "log_name" -> "schedule"
      [] pc = "log_order" -> "loop"
      [] pc = "log_executing" -> "invoke"
      [] pc = "log_output" -> "loop"
      [] pc = "log_error" -> "loop"
      [] pc = "log_finished" -> "mark_completed"
      [] pc = "log_wf_failed" -> "mark_wf_failed"

\* Faulty variant of AfterLog: after the error entry the executor is called again.
AfterLogRetry(pc) ==
    CASE pc = "log_starting" -> "log_name"
      [] pc = "log_name" -> "schedule"
      [] pc = "log_order" -> "loop"
      [] pc = "log_executing" -> "invoke"
      [] pc = "log_output" -> "loop"
      [] pc = "log_error" -> "invoke"
      [] pc = "log_finished" -> "mark_completed"
      [] pc = "log_wf_failed" -> "mark_wf_failed"

AfterLog(pc) ==
    CASE pc = "log_starting" -> "log_name"
      [] pc = "log_name" -> "schedule"
      [] pc = "log_order" -> "loop"
      [] pc = "log_executing" -> "invoke"
      [] pc = "log_output" -> "loop"
      [] pc = "log_error" -> "mark_failed"
      [] pc = "log_finished" -> "mark_completed"
      [] pc = "log_wf_failed" -> "mark_wf_failed"

\* The patch of lines 235-239 and 255-259.
FailedPatch == [status |-> "failed", completedAt |-> "loop", currentNodeId |-> Undefined]

\* Faulty variant of CompletedPatch: the results are left out of the update.
CompletedPatchNoResults(executionResults) ==
    [status |-> "completed", completedAt |-> "loop", currentNodeId |-> Undefined]

\* The patch of lines 246-251.
CompletedPatch(executionResults) ==
    [status |-> "completed", completedAt |-> "loop", currentNodeId |-> Undefined,
     results |-> [present |-> TRUE, entries |-> executionResults]]

\* Faulty variant of StopPatch: the stop route clears currentNodeId as well.
StopPatchClearsNode == [status |-> "stopped", completedAt |-> "stop", currentNodeId |-> Undefined]

\* Faulty variant of StopPatch: the stop route sets the status alone.
StopPatchStatusOnly == [status |-> "stopped"]

\* The patch of the stop route.
StopPatch == [status |-> "stopped", completedAt |-> "stop"]

\* storage.getWorkflow of an id the workflows map has no entry for.
NoWorkflow == [absent |-> TRUE]

\* POST /api/workflows/:id/execute: a workflow that is not in storage is
\* answered 404; else createExecution, then executeWorkflow is called with
\* the workflow object read from storage and runs in the background.
ExecuteRequest ==
    /\ Cardinality(Started) < execLimit
    /\ workflow # NoWorkflow
    /\ LET e == ExecPool[Cardinality(Started) + 1]
       IN  /\ executions' = CreateExecution(executions, e, "wf")
           /\ run' = [run EXCEPT ![e] = [IdleRun EXCEPT !.pc = "log_starting",
                                                        !.executionId = e,
                                                        !.wf = workflow]]
    /\ UNCHANGED <<client, call, workflow, schedOut, execLimit, invoked, returned, threw>>

\* Faulty variant of UpdatedLogs: the new entry is put in front of the logs read.
UpdatedLogsPrepend(execution, newLog) == <<newLog>> \o execution.logs

\* addLog, line 168: [...execution.logs, newLog]
UpdatedLogs(execution, newLog) == Append(execution.logs, newLog)

\* addLog, line 158: the execution object is read from storage. updateExecution
\* never changes a stored object, it stores a new one, so what addLog holds is
\* the record as it was at this read.
AddLogRead(e) ==
    /\ run[e].pc \in LogPoints
    /\ ~run[e].haveRead
    /\ run' = [run EXCEPT ![e].execution = executions[e], ![e].haveRead = TRUE]
    /\ UNCHANGED <<client, call, workflow, schedOut, executions, execLimit, invoked, returned, threw>>

\* addLog, lines 168-169: the logs read, with the new entry, are written back;
\* after the "Output" entry the for loop moves to the next node.
AddLogWrite(e) ==
    /\ run[e].pc \in LogPoints
    /\ run[e].haveRead
    /\ executions' = UpdateExecution(executions, e,
                         [logs |-> UpdatedLogs(run[e].execution, LogEntry(run[e]))])
    /\ run' = [run EXCEPT ![e].pc = AfterLog(run[e].pc),
                          ![e].haveRead = FALSE,
                          ![e].done = IF run[e].pc = "log_output" THEN @ + 1 ELSE @]
    /\ UNCHANGED <<client, call, workflow, schedOut, execLimit, invoked, returned, threw>>

\* Faulty variant of Schedule: an error of getExecutionOrder is dropped and the nodes
\* are run in node-list order.
ScheduleIgnoresError(e) ==
    /\ run[e].pc = "schedule"
    /\ run' = [run EXCEPT ![e].pc = "log_order",
                          ![e].executionOrder = MapKeys(run[e].wf.nodes)]
    /\ UNCHANGED <<client, call, workflow, schedOut, executions, execLimit, invoked, returned, threw>>

\* Line 182: getExecutionOrder returns the order, or throws into the outer catch.
Schedule(e) ==
    /\ run[e].pc = "schedule"
    /\ \E out \in {GetExecutionOrder(run[e].wf.nodes, run[e].wf.connections)} :
           run' = [run EXCEPT ![e].pc = IF out.error = NoError THEN "log_order"
                                                               ELSE "log_wf_failed",
                             ![e].executionOrder = out.order,
                             ![e].error = out.error]
    /\ UNCHANGED <<client, call, workflow, schedOut, executions, execLimit, invoked, returned, threw>>

\* Lines 187-191: the next node of the order becomes currentNodeId.
LoopNext(e) ==
    /\ run[e].pc = "loop"
    /\ run[e].done < Len(run[e].executionOrder)
    /\ executions' = UpdateExecution(executions, e, [currentNodeId |-> CurrentNodeId(run[e])])
    /\ run' = [run EXCEPT ![e].pc = "log_executing"]
    /\ UNCHANGED <<client, call, workflow, schedOut, execLimit, invoked, returned, threw>>

\* Some stored result is that of a Branch node whose condition was false.
FalseBranchStored(executionResults) ==
    \E n \in DOMAIN executionResults :
        \E i \in DOMAIN executionResults[n] :
            /\ "outputPath" \in DOMAIN executionResults[n][i]
            /\ executionResults[n][i].outputPath = "false"

\* Faulty variant of LoopEnd: the loop may also end once a Branch node has
\* returned outputPath "false".
LoopEndAfterFalseBranch(e) ==
    /\ run[e].pc = "loop"
    /\ \/ run[e].done = Len(run[e].executionOrder)
       \/ FalseBranchStored(run[e].executionResults)
    /\ run' = [run EXCEPT ![e].pc = "log_finished"]
    /\ UNCHANGED <<client, call, workflow, schedOut, executions, execLimit, invoked, returned, threw>>

\* Line 187, the order exhausted: on to the success log of line 245.
LoopEnd(e) ==
    /\ run[e].pc = "loop"
    /\ run[e].done = Len(run[e].executionOrder)
    /\ run' = [run EXCEPT ![e].pc = "log_finished"]
    /\ UNCHANGED <<client, call, workflow, schedOut, executions, execLimit, invoked, returned, threw>>

\* Lines 201-223: the executor is looked up, its input gathered and execute
\* called; a type without a registry entry throws into the inner catch.
Invoke(e) ==
    /\ run[e].pc = "invoke"
    /\ LET nodeConfig == FindNode(run[e].wf.nodes, CurrentNodeId(run[e]))
       IN  IF nodeConfig.type \in NodeRegistry
           THEN /\ run' = [run EXCEPT ![e].pc = "executing",
                                      ![e].inputData = GatherInput(run[e].wf.connections,
                                                                   run[e].executionResults,
                                                                   CurrentNodeId(run[e])),
                                      ![e].httpCalls = IF IssuesHttpCall(nodeConfig)
                                                       THEN @ + 1 ELSE @]
                /\ invoked' = [invoked EXCEPT ![e] = Append(@, CurrentNodeId(run[e]))]
           ELSE /\ run' = [run EXCEPT ![e].pc = "log_error", ![e].error = "not registered"]
                /\ UNCHANGED invoked
    /\ UNCHANGED <<client, call, workflow, schedOut, executions, execLimit, returned, threw>>

\* Faulty variant of ExecutorReturns: the output is stored and the loop goes on
\* without the output entry.
ExecutorReturnsNoLog(e) ==
    /\ run[e].pc = "executing"
    /\ ~MissingUrl(FindNode(run[e].wf.nodes, CurrentNodeId(run[e])))
    /\ LET nodeConfig == FindNode(run[e].wf.nodes, CurrentNodeId(run[e]))
       IN  \E outputData \in OutputsOf(nodeConfig, run[e].inputData) :
           run' = [run EXCEPT ![e].pc = "loop",
                             ![e].done = @ + 1,
                             ![e].executionResults =
                                 [n \in DOMAIN @ \cup {nodeConfig.id} |->
                                     IF n = nodeConfig.id
                                     THEN Stamped(outputData, run[e].executionId)
                                     ELSE @[n]]]
    /\ returned' = [returned EXCEPT ![e] = @ \cup {CurrentNodeId(run[e])}]
    /\ UNCHANGED <<client, call, workflow, schedOut, executions, execLimit, invoked, threw>>

\* Lines 223-224: execute resolves and its output is stored under the node id.
ExecutorReturns(e) ==
    /\ run[e].pc = "executing"
    /\ ~MissingUrl(FindNode(run[e].wf.nodes, CurrentNodeId(run[e])))
    /\ LET nodeConfig == FindNode(run[e].wf.nodes, CurrentNodeId(run[e]))
       IN  \E outputData \in OutputsOf(nodeConfig, run[e].inputData) :
           run' = [run EXCEPT ![e].pc = "log_output",
                             ![e].executionResults =
                                 [n \in DOMAIN @ \cup {nodeConfig.id} |->
                                     IF n = nodeConfig.id
                                     THEN Stamped(outputData, run[e].executionId)
                                     ELSE @[n]]]
    /\ returned' = [returned EXCEPT ![e] = @ \cup {CurrentNodeId(run[e])}]
    /\ UNCHANGED <<client, call, workflow, schedOut, executions, execLimit, invoked, threw>>

\* Faulty variant of ExecutorThrows: the inner catch marks the execution failed
\* without the error entry.
ExecutorThrowsNoLog(e) ==
    /\ run[e].pc = "executing"
    /\ CanThrow(FindNode(run[e].wf.nodes, CurrentNodeId(run[e])).type)
    /\ run' = [run EXCEPT ![e].pc = "mark_failed", ![e].error = ThrownBy(FindNode(run[e].wf.nodes, CurrentNodeId(run[e])))]
    /\ threw' = [threw EXCEPT ![e] = @ \cup {CurrentNodeId(run[e])}]
    /\ UNCHANGED <<client, call, workflow, schedOut, executions, execLimit, invoked, returned>>

\* Faulty variant of ExecutorThrows: the failing node is given an empty result list.
ExecutorThrowsStores(e) ==
    /\ run[e].pc = "executing"
    /\ CanThrow(FindNode(run[e].wf.nodes, CurrentNodeId(run[e])).type)
    /\ run' = [run EXCEPT ![e].pc = "log_error", ![e].error = ThrownBy(FindNode(run[e].wf.nodes, CurrentNodeId(run[e]))),
                          ![e].executionResults =
                              [n \in DOMAIN @ \cup {CurrentNodeId(run[e])} |->
                                  IF n = CurrentNodeId(run[e]) THEN <<>> ELSE @[n]]]
    /\ threw' = [threw EXCEPT ![e] = @ \cup {CurrentNodeId(run[e])}]
    /\ UNCHANGED <<client, call, workflow, schedOut, executions, execLimit, invoked, returned>>

\* Lines 223, 233: execute rejects and control enters the inner catch.
ExecutorThrows(e) ==
    /\ run[e].pc = "executing"
    /\ CanThrow(FindNode(run[e].wf.nodes, CurrentNodeId(run[e])).type)
    /\ run' = [run EXCEPT ![e].pc = "log_error", ![e].error = ThrownBy(FindNode(run[e].wf.nodes, CurrentNodeId(run[e])))]
    /\ threw' = [threw EXCEPT ![e] = @ \cup {CurrentNodeId(run[e])}]
    /\ UNCHANGED <<client, call, workflow, schedOut, executions, execLimit, invoked, returned>>

\* Lines 235-240: the execution is marked failed and executeWorkflow returns.
MarkFailed(e) ==
    /\ run[e].pc = "mark_failed"
    /\ executions' = UpdateExecution(executions, e, FailedPatch)
    /\ run' = [run EXCEPT ![e].pc = "done"]
    /\ UNCHANGED <<client, call, workflow, schedOut, execLimit, invoked, returned, threw>>

\* Lines 246-251: the execution is marked completed with the results.
MarkCompleted(e) ==
    /\ run[e].pc = "mark_completed"
    /\ executions' = UpdateExecution(executions, e, CompletedPatch(run[e].executionResults))
    /\ run' = [run EXCEPT ![e].pc = "done"]
    /\ UNCHANGED <<client, call, workflow, schedOut, execLimit, invoked, returned, threw>>

\* Faulty variant of MarkWorkflowFailed: the outer catch logs and returns without the
\* status update.
MarkWorkflowFailedNoUpdate(e) ==
    /\ run[e].pc = "mark_wf_failed"
    /\ run' = [run EXCEPT ![e].pc = "done"]
    /\ UNCHANGED <<client, call, workflow, schedOut, executions, execLimit, invoked, returned, threw>>

\* Lines 255-259: the outer catch marks the execution failed.
MarkWorkflowFailed(e) ==
    /\ run[e].pc = "mark_wf_failed"
    /\ executions' = UpdateExecution(executions, e, FailedPatch)
    /\ run' = [run EXCEPT ![e].pc = "done"]
    /\ UNCHANGED <<client, call, workflow, schedOut, execLimit, invoked, returned, threw>>

\* POST /api/executions/:id/stop: one updateExecution, whatever the status is.
StopRequest(e) ==
    /\ executions[e].status # "absent"
    /\ executions' = UpdateExecution(executions, e, StopPatch)
    /\ UNCHANGED <<client, call, workflow, schedOut, run, execLimit, invoked, returned, threw>>

Init ==
    /\ workflow \in {SampleWorkflow} \cup RunWorkflows(MaxNodes, MaxConns, RunTypes)
    /\ schedOut = NotComputed
    /\ executions = [e \in ExecIds |-> NoExec]
    /\ run = [e \in ExecIds |-> IdleRun]
    /\ execLimit = 1
    /\ invoked = [e \in ExecIds |-> <<>>]
    /\ returned = [e \in ExecIds |-> {}]
    /\ threw = [e \in ExecIds |-> {}]
    /\ client = IdleClient
    /\ call = NoCall

RunStep(e) ==
    \/ AddLogRead(e)
    \/ AddLogWrite(e)
    \/ Schedule(e)
    \/ LoopNext(e)
    \/ LoopEnd(e)
    \/ Invoke(e)
    \/ ExecutorReturns(e)
    \/ ExecutorThrows(e)
    \/ MarkFailed(e)
    \/ MarkCompleted(e)
    \/ MarkWorkflowFailed(e)

Next ==
    \/ ExecuteRequest
    \/ \E e \in ExecIds : RunStep(e)
    \/ \E e \in ExecIds : StopRequest(e)

Spec == Init /\ [][Next]_vars

\* The event loop runs every continuation that is ready, and every executor
\* that was called returns or throws.
Fairness == \A e \in ExecIds : WF_vars(RunStep(e))

InitLive ==
    /\ workflow \in {SampleWorkflow} \cup RunWorkflows(LiveMaxNodes, LiveMaxConns, RunTypes)
    /\ schedOut = NotComputed
    /\ executions = [e \in ExecIds |-> NoExec]
    /\ run = [e \in ExecIds |-> IdleRun]
    /\ execLimit = 1
    /\ invoked = [e \in ExecIds |-> <<>>]
    /\ returned = [e \in ExecIds |-> {}]
    /\ threw = [e \in ExecIds |-> {}]
    /\ client = IdleClient
    /\ call = NoCall

FairSpec == InitLive /\ [][Next]_vars /\ Fairness

\* ------------------------------------------- a run no stop request meets
\* One execute request, and no request to the stop route.
InitFlow ==
    /\ workflow \in KnownWorkflows(FlowMaxNodes, FlowMaxConns, RunTypes)
    /\ schedOut = NotComputed
    /\ executions = [e \in ExecIds |-> NoExec]
    /\ run = [e \in ExecIds |-> IdleRun]
    /\ execLimit = 1
    /\ invoked = [e \in ExecIds |-> <<>>]
    /\ returned = [e \in ExecIds |-> {}]
    /\ threw = [e \in ExecIds |-> {}]
    /\ client = IdleClient
    /\ call = NoCall

NextFlow ==
    \/ ExecuteRequest
    \/ \E e \in ExecIds : RunStep(e)

SpecFlow == InitFlow /\ [][NextFlow]_vars

\* ------------------------------------------- runs with Branch nodes
\* One execute request, no stop request; in a workflow getExecutionOrder
\* returns an order for, each node is a StartNode or an IfNode.
BranchTypes == {"StartNode", "IfNode"}

InitBranch ==
    /\ workflow \in UNION {IF GetExecutionOrder(wf.nodes, wf.connections).error = NoError
                            THEN Retyped(wf, BranchTypes)
                            ELSE {wf} :
                                wf \in Workflows(BranchMaxNodes, BranchMaxConns,
                                                 {"StartNode"}, {})}
    /\ schedOut = NotComputed
    /\ executions = [e \in ExecIds |-> NoExec]
    /\ run = [e \in ExecIds |-> IdleRun]
    /\ execLimit = 1
    /\ invoked = [e \in ExecIds |-> <<>>]
    /\ returned = [e \in ExecIds |-> {}]
    /\ threw = [e \in ExecIds |-> {}]
    /\ client = IdleClient
    /\ call = NoCall

SpecBranch == InitBranch /\ [][NextFlow]_vars

\* ------------------------------------------- runs and workflow edits
\* One execute request, no stop request, and requests to the PUT and DELETE
\* routes of the workflow at any moment.
EditWorkflows == KnownWorkflows(EditMaxNodes, EditMaxConns, RunTypes)
UpdateBodies == KnownWorkflows(UpdateMaxNodes, UpdateMaxConns, RunTypes)

\* Faulty variant of UpdateWorkflow: the stored object is changed in place, and
\* with it the object every run in progress was given.
UpdateWorkflowInPlace ==
    /\ workflow # NoWorkflow
    /\ \E updateData \in UpdateBodies :
           /\ workflow' = updateData
           /\ run' = [e \in ExecIds |->
                         IF run[e].pc \notin {"idle", "done"}
                         THEN [run[e] EXCEPT !.wf = updateData] ELSE run[e]]
    /\ UNCHANGED <<client, call, schedOut, executions, execLimit, invoked, returned, threw>>

\* PUT /api/workflows/:id, storage.updateWorkflow: a new object, made of
\* the stored one and the validated body, replaces the map's entry; the
\* object stored before is not written to.
UpdateWorkflow ==
    /\ workflow # NoWorkflow
    /\ \E updateData \in UpdateBodies : workflow' = updateData
    /\ UNCHANGED <<client, call, schedOut, executions, run, execLimit, invoked, returned, threw>>

\* DELETE /api/workflows/:id, storage.deleteWorkflow: the map's entry is removed.
DeleteWorkflow ==
    /\ workflow # NoWorkflow
    /\ workflow' = NoWorkflow
    /\ UNCHANGED <<client, call, schedOut, executions, run, execLimit, invoked, returned, threw>>

InitEdit ==
    /\ workflow \in EditWorkflows
    /\ schedOut = NotComputed
    /\ executions = [e \in ExecIds |-> NoExec]
    /\ run = [e \in ExecIds |-> IdleRun]
    /\ execLimit = 1
    /\ invoked = [e \in ExecIds |-> <<>>]
    /\ returned = [e \in ExecIds |-> {}]
    /\ threw = [e \in ExecIds |-> {}]
    /\ client = IdleClient
    /\ call = NoCall

NextEdit ==
    \/ ExecuteRequest
    \/ \E e \in ExecIds : RunStep(e)
    \/ UpdateWorkflow
    \/ DeleteWorkflow

SpecEdit == InitEdit /\ [][NextEdit]_vars

\* ------------------------------------------- runs over node parameters
\* One execute request, no stop request, for a workflow whose FetchApiNode
\* nodes have no url, an empty url or a url.
InitParams ==
    /\ workflow \in ParamWorkflows(ParamMaxNodes, ParamMaxConns, RunTypes, ParamUrls)
    /\ schedOut = NotComputed
    /\ executions = [e \in ExecIds |-> NoExec]
    /\ run = [e \in ExecIds |-> IdleRun]
    /\ execLimit = 1
    /\ invoked = [e \in ExecIds |-> <<>>]
    /\ returned = [e \in ExecIds |-> {}]
    /\ threw = [e \in ExecIds |-> {}]
    /\ client = IdleClient
    /\ call = NoCall

SpecParams == InitParams /\ [][NextFlow]_vars

\* ------------------------------------------- two runs of one workflow
\* Two execute requests for the workflow: each creates its execution and
\* starts its own executeWorkflow call on the one engine and the one storage.
InitPair ==
    /\ workflow \in RunWorkflows(PairMaxNodes, PairMaxConns, RunTypes)
    /\ schedOut = NotComputed
    /\ executions = [e \in ExecIds |-> NoExec]
    /\ run = [e \in ExecIds |-> IdleRun]
    /\ execLimit = 2
    /\ invoked = [e \in ExecIds |-> <<>>]
    /\ returned = [e \in ExecIds |-> {}]
    /\ threw = [e \in ExecIds |-> {}]
    /\ client = IdleClient
    /\ call = NoCall

SpecPair == InitPair /\ [][Next]_vars

\* ------------------------------------------- the client's WorkflowEngine
\* client/src/lib/workflow-engine.ts: the engine of the browser. Its registry
\* has no IfNode, a type the schema lets a node have.
ClientNodeRegistry == {"StartNode", "FetchApiNode", "LogMessageNode"}

ClientTypes == {"StartNode", "FetchApiNode", "IfNode"}

ErrNotRegistered == "not registered"
ErrNoConfig == "Node configuration not found"

\* getExecutionOrder of the client: the endpoints of a connection are not
\* checked. A connection from an unknown id is skipped by
\* graph.get(conn.from)?.push, one to an unknown id makes a new inDegree key.
ClientGetExecutionOrder(nodes, connections) ==
    LET inDegree == [id \in NodeIdsOf(nodes) \cup {connections[i].to : i \in DOMAIN connections} |->
                        Cardinality({i \in DOMAIN connections : connections[i].to = id})]
        order == KahnLoop(SelectSeq(connections, LAMBDA c : c.from \in NodeIdsOf(nodes)),
                          ZeroDegree(MapKeys(nodes), inDegree), <<>>, inDegree)
    IN  IF Len(order) # Len(nodes)
        THEN [error |-> ErrCycle, order |-> <<>>]
        ELSE [error |-> NoError, order |-> order]

\* The node id the client's loop is at.
ClientNodeId == client.executionOrder[client.done + 1]

\* Lines 123-131: executeWorkflow computes the order; an error of
\* getExecutionOrder rejects the call before any node is looked at.
ClientExecute ==
    /\ client.pc = "idle"
    /\ \E out \in {ClientGetExecutionOrder(workflow.nodes, workflow.connections)} :
           client' = [client EXCEPT !.pc = IF out.error = NoError THEN "loop" ELSE "rejected",
                                    !.executionOrder = out.order,
                                    !.error = out.error]
    /\ UNCHANGED <<call, workflow, schedOut, executions, run, execLimit, invoked, returned, threw>>

\* Faulty variant of ClientLoop: a node of a type without executor is passed
\* over and the loop goes on.
ClientLoopSkips ==
    /\ client.pc = "loop"
    /\ client.done < Len(client.executionOrder)
    /\ IF ClientNodeId \notin NodeIdsOf(workflow.nodes)
       THEN client' = [client EXCEPT !.pc = "rejected", !.error = ErrNoConfig]
       ELSE LET nodeConfig == FindNode(workflow.nodes, ClientNodeId)
            IN  IF nodeConfig.type \in ClientNodeRegistry
                THEN client' = [client EXCEPT
                        !.pc = "executing",
                        !.progress = Append(@, <<ClientNodeId, "executing">>),
                        !.inputData = GatherInput(workflow.connections,
                                                  client.executionResults, ClientNodeId),
                        !.invoked = Append(@, ClientNodeId)]
                ELSE client' = [client EXCEPT
                        !.progress = Append(@, <<ClientNodeId, "executing">>),
                        !.done = @ + 1]
    /\ UNCHANGED <<call, workflow, schedOut, executions, run, execLimit, invoked, returned, threw>>

\* Lines 132-164, 170-175: the next node of the order. Its config is looked
\* up (134-136), onProgress told "executing" (139) and the executor taken
\* from the registry; without one the throw of line 144 lands in the catch,
\* which writes the node id to console.error, tells onProgress "failed" and
\* rejects the call. With one, the input is gathered and execute called.
ClientLoop ==
    /\ client.pc = "loop"
    /\ client.done < Len(client.executionOrder)
    /\ IF ClientNodeId \notin NodeIdsOf(workflow.nodes)
       THEN client' = [client EXCEPT !.pc = "rejected", !.error = ErrNoConfig]
       ELSE LET nodeConfig == FindNode(workflow.nodes, ClientNodeId)
            IN  IF nodeConfig.type \in ClientNodeRegistry
                THEN client' = [client EXCEPT
                        !.pc = "executing",
                        !.progress = Append(@, <<ClientNodeId, "executing">>),
                        !.inputData = GatherInput(workflow.connections,
                                                  client.executionResults, ClientNodeId),
                        !.invoked = Append(@, ClientNodeId)]
                ELSE client' = [client EXCEPT
                        !.pc = "rejected",
                        !.error = ErrNotRegistered,
                        !.progress = @ \o <<<<ClientNodeId, "executing">>,
                                            <<ClientNodeId, "failed">>>>,
                        !.consoleErrors = Append(@, ClientNodeId)]
    /\ UNCHANGED <<call, workflow, schedOut, executions, run, execLimit, invoked, returned, threw>>

\* Lines 164-168: execute resolves; the output is stored under the node id
\* and onProgress told "completed".
ClientReturns ==
    /\ client.pc = "executing"
    /\ ~MissingUrl(FindNode(workflow.nodes, ClientNodeId))
    /\ client' = [client EXCEPT
           !.pc = "loop",
           !.done = @ + 1,
           !.executionResults =
               [n \in DOMAIN @ \cup {ClientNodeId} |->
                   IF n = ClientNodeId
                   THEN OutputOf(FindNode(workflow.nodes, ClientNodeId), client.inputData)
                   ELSE @[n]],
           !.progress = Append(@, <<ClientNodeId, "completed">>)]
    /\ UNCHANGED <<call, workflow, schedOut, executions, run, execLimit, invoked, returned, threw>>

\* Faulty variant of ClientThrows: after the catch has told onProgress
\* "failed", the loop goes on with the next node.
ClientThrowsContinues ==
    /\ client.pc = "executing"
    /\ CanThrow(FindNode(workflow.nodes, ClientNodeId).type)
    /\ client' = [client EXCEPT
           !.pc = "loop",
           !.done = @ + 1,
           !.error = ThrownBy(FindNode(workflow.nodes, ClientNodeId)),
           !.progress = Append(@, <<ClientNodeId, "failed">>),
           !.consoleErrors = Append(@, ClientNodeId)]
    /\ UNCHANGED <<call, workflow, schedOut, executions, run, execLimit, invoked, returned, threw>>

\* Lines 164, 170-175: execute rejects; the catch writes the node id to
\* console.error, tells onProgress "failed" and rejects the call.
ClientThrows ==
    /\ client.pc = "executing"
    /\ CanThrow(FindNode(workflow.nodes, ClientNodeId).type)
    /\ client' = [client EXCEPT
           !.pc = "rejected",
           !.error = ThrownBy(FindNode(workflow.nodes, ClientNodeId)),
           !.progress = Append(@, <<ClientNodeId, "failed">>),
           !.consoleErrors = Append(@, ClientNodeId)]
    /\ UNCHANGED <<call, workflow, schedOut, executions, run, execLimit, invoked, returned, threw>>

\* Line 178: the order is exhausted and the call resolves.
ClientFinish ==
    /\ client.pc = "loop"
    /\ client.done = Len(client.executionOrder)
    /\ client' = [client EXCEPT !.pc = "resolved"]
    /\ UNCHANGED <<call, workflow, schedOut, executions, run, execLimit, invoked, returned, threw>>

InitClient ==
    /\ workflow \in Workflows(ClientMaxNodes, ClientMaxConns, ClientTypes, {Ghost})
    /\ schedOut = NotComputed
    /\ executions = [e \in ExecIds |-> NoExec]
    /\ run = [e \in ExecIds |-> IdleRun]
    /\ execLimit = 0
    /\ invoked = [e \in ExecIds |-> <<>>]
    /\ returned = [e \in ExecIds |-> {}]
    /\ threw = [e \in ExecIds |-> {}]
    /\ client = IdleClient
    /\ call = NoCall

NextClient == ClientExecute \/ ClientLoop \/ ClientReturns \/ ClientThrows \/ ClientFinish

SpecClient == InitClient /\ [][NextClient]_vars

\* ------------------------------------------- IfNode and LogMessageNode
\* A condition or a message is the sequence of its lexemes, the string being
\* the lexemes joined by blanks. A lexeme has a kind k, its text s, the number
\* n of a numeric or boolean literal and the path of a placeholder.
Lexeme(k, s, n, path) == [k |-> k, s |-> s, n |-> n, path |-> path]

NumLit(n) == Lexeme("num", "", n, <<>>)
TrueLit == Lexeme("bool", "true", 1, <<>>)
UndefinedLit == Lexeme("undefined", "undefined", 0, <<>>)
\* An expression with a side effect: an assignment to a global, of value 1.
EffectLit == Lexeme("effect", "(globalThis.hit = 1)", 1, <<>>)
Op(s) == Lexeme("op", s, 0, <<>>)
\* {{a.b}}: what the regular expression captures, split at the dots.
Placeholder(path) == Lexeme("ph", "", 0, path)
Text(s) == Lexeme("text", s, 0, <<>>)

\* A JSON value of an input record: a number, an object, or undefined for
\* what a record does not hold.
JNum(n) == [t |-> "num", n |-> n, fields |-> <<>>]
JObj(fields) == [t |-> "obj", n |-> 0, fields |-> fields]
JUndefined == [t |-> "undefined", n |-> 0, fields |-> <<>>]

\* The input records {} and {a: {b: n}}.
DataRecords == {JObj(<<>>), JObj([a |-> JObj([b |-> JNum(5)])]),
                JObj([a |-> JObj([b |-> JNum(7)])])}
InputLists == {<<>>} \cup {<<d>> : d \in DataRecords}

CondLexemes == {NumLit(5), NumLit(7), TrueLit, UndefinedLit, EffectLit,
                Op("==="), Op("<"), Op("&&"), Op("*"),
                Placeholder(<<"a", "b">>), Placeholder(<<"x", "y">>)}
MsgLexemes == {Text("value:"), Placeholder(<<"a", "b">>), Placeholder(<<"x", "y">>)}

\* inputData[0] || {}
FirstOrEmpty(inputData) == IF inputData = <<>> THEN JObj(<<>>) ELSE inputData[1]

\* IfNode, line 72: reduce((obj, key) => obj?.[key], data).
RECURSIVE WalkOptional(_, _)
WalkOptional(obj, keys) ==
    IF keys = <<>> THEN obj
    ELSE WalkOptional(IF obj.t = "obj" /\ Head(keys) \in DOMAIN obj.fields
                      THEN obj.fields[Head(keys)]
                      ELSE JUndefined,
                      Tail(keys))

\* Line 73: JSON.stringify(value) as the replacement. For undefined it
\* returns undefined, and String.replace inserts the text "undefined".
Stringified(value) ==
    CASE value.t = "num" -> NumLit(value.n)
      [] value.t = "undefined" -> UndefinedLit

\* Lines 70-74: every {{...}} of the condition is replaced.
Substituted(condition, data) ==
    [i \in DOMAIN condition |->
        IF condition[i].k = "ph"
        THEN Stringified(WalkOptional(data, condition[i].path))
        ELSE condition[i]]

\* JavaScript values and operators, as far as the lexemes need them.
JsNum(n) == [t |-> "num", n |-> n]
JsBool(b) == [t |-> "bool", n |-> IF b THEN 1 ELSE 0]
JsUndefined == [t |-> "undefined", n |-> 0]
JsNaN == [t |-> "nan", n |-> 0]

ToNumber(v) == IF v.t \in {"num", "bool"} THEN JsNum(v.n) ELSE JsNaN
Truthy(v) == v.t \in {"num", "bool"} /\ v.n # 0

ApplyOp(op, a, b) ==
    CASE op = "===" -> JsBool(a.t # "nan" /\ a = b)
      [] op = "<" -> JsBool(ToNumber(a).t = "num" /\ ToNumber(b).t = "num"
                            /\ ToNumber(a).n < ToNumber(b).n)
      [] op = "*" -> IF ToNumber(a).t = "num" /\ ToNumber(b).t = "num"
                     THEN JsNum(ToNumber(a).n * ToNumber(b).n)
                     ELSE JsNaN

Precedence(op) ==
    CASE op = "*" -> 4 [] op = "<" -> 3 [] op = "===" -> 2 [] op = "&&" -> 1

IsOperand(lexeme) == lexeme.k \in {"num", "bool", "undefined", "effect"}

\* The text parses as an expression: operands with binary operators between
\* them. The empty text is an empty program.
Parses(tokens) ==
    \/ tokens = <<>>
    \/ /\ Len(tokens) % 2 = 1
       /\ \A i \in DOMAIN tokens : IF i % 2 = 1 THEN IsOperand(tokens[i])
                                                ELSE tokens[i].k = "op"

\* The operator applied last: of the lowest precedence, and of these the
\* rightmost (the operators associate to the left).
SplitAt(tokens) ==
    CHOOSE i \in DOMAIN tokens :
        /\ i % 2 = 0
        /\ \A j \in DOMAIN tokens :
               j % 2 = 0 => \/ Precedence(tokens[j].s) > Precedence(tokens[i].s)
                            \/ (Precedence(tokens[j].s) = Precedence(tokens[i].s) /\ j <= i)

\* The value of an expression that parses and the number of side effects its
\* evaluation has; && does not evaluate its right side after a falsy left.
RECURSIVE Evaluated(_)
Evaluated(tokens) ==
    IF tokens = <<>> THEN [value |-> JsUndefined, effects |-> 0]
    ELSE IF Len(tokens) = 1
    THEN CASE tokens[1].k = "num" -> [value |-> JsNum(tokens[1].n), effects |-> 0]
           [] tokens[1].k = "bool" -> [value |-> JsBool(tokens[1].n = 1), effects |-> 0]
           [] tokens[1].k = "undefined" -> [value |-> JsUndefined, effects |-> 0]
           [] tokens[1].k = "effect" -> [value |-> JsNum(tokens[1].n), effects |-> 1]
    ELSE LET i == SplitAt(tokens)
             left == Evaluated(SubSeq(tokens, 1, i - 1))
             right == Evaluated(SubSeq(tokens, i + 1, Len(tokens)))
         IN  IF tokens[i].s = "&&"
             THEN IF Truthy(left.value)
                  THEN [value |-> right.value, effects |-> left.effects + right.effects]
                  ELSE left
             ELSE [value |-> ApplyOp(tokens[i].s, left.value, right.value),
                   effects |-> left.effects + right.effects]

\* Line 77: eval(evaluableCondition). A text that does not parse throws a
\* SyntaxError; every other text is run as a program.
Eval(tokens) ==
    IF Parses(tokens)
    THEN [threw |-> FALSE, value |-> Evaluated(tokens).value,
          effects |-> Evaluated(tokens).effects]
    ELSE [threw |-> TRUE, value |-> JsUndefined, effects |-> 0]

ErrCondition == "Failed to evaluate condition"
NoOutcome == [threw |-> FALSE, error |-> NoError, output |-> <<>>, console |-> <<>>,
              effects |-> 0]

\* IfNode.execute, lines 64-88.
IfNodeExecute(inputData, params) ==
    LET condition == IF "condition" \in DOMAIN params THEN params.condition
                                                      ELSE <<TrueLit>>
        data == FirstOrEmpty(inputData)
        result == Eval(Substituted(condition, data))
    IN  IF result.threw
        THEN [threw |-> TRUE, error |-> ErrCondition, output |-> <<>>, console |-> <<>>,
              effects |-> result.effects]
        ELSE [threw |-> FALSE, error |-> NoError,
              output |-> <<[conditionResult |-> Truthy(result.value),
                            conditionExpression |-> condition,
                            inputData |-> data,
                            outputPath |-> IF Truthy(result.value) THEN "true" ELSE "false"]>>,
              console |-> <<>>, effects |-> result.effects]

\* LogMessageNode.execute of the server, lines 51-60: the message is returned
\* as it was given.
LogMessageNodeExecute(inputData, params) ==
    LET message == IF "message" \in DOMAIN params THEN params.message
                                                  ELSE <<Text("Log output")>>
        data == FirstOrEmpty(inputData)
    IN  [threw |-> FALSE, error |-> NoError,
         output |-> <<[logMessage |-> message, loggedData |-> data]>>,
         console |-> <<>>, effects |-> 0]

\* Mini N8N's LogMessageNode, line 15: reduce((o, i) => (o ? o[i] : undefined), item).
RECURSIVE WalkTruthy(_, _)
WalkTruthy(o, keys) ==
    IF keys = <<>> THEN o
    ELSE WalkTruthy(IF o.t = "undefined" \/ (o.t = "num" /\ o.n = 0) THEN JUndefined
                    ELSE IF o.t = "obj" /\ Head(keys) \in DOMAIN o.fields
                    THEN o.fields[Head(keys)]
                    ELSE JUndefined,
                    Tail(keys))

\* The text String.replace makes of a value the callback returns.
AsText(value) == CASE value.t = "num" -> NumLit(value.n)

\* Lines 13-17: a value that is found replaces its placeholder; otherwise
\* the placeholder is written back.
Formatted(message, item) ==
    [i \in DOMAIN message |->
        IF message[i].k = "ph" /\ WalkTruthy(item, message[i].path).t # "undefined"
        THEN AsText(WalkTruthy(item, message[i].path))
        ELSE message[i]]

\* Mini N8N's LogMessageNode.execute, lines 6-22: one console line for each
\* input item; the input is returned.
MiniLogMessageNodeExecute(input, params) ==
    IF "message" \notin DOMAIN params \/ params.message = <<>>
    THEN [threw |-> FALSE, error |-> NoError, output |-> input, console |-> <<>>,
          effects |-> 0]
    ELSE [threw |-> FALSE, error |-> NoError, output |-> input,
          console |-> [i \in DOMAIN input |-> Formatted(params.message, input[i])],
          effects |-> 0]

NoParams == [x \in {} |-> <<>>]

\* A call of IfNode.execute.
IfNodeCall ==
    /\ call.pc = "ready"
    /\ call.type = "IfNode"
    /\ call' = [call EXCEPT !.pc = "done",
                            !.outcome = IfNodeExecute(call.inputData, call.params)]
    /\ UNCHANGED <<client, workflow, schedOut, executions, run, execLimit, invoked, returned, threw>>

\* A call of the server's LogMessageNode.execute.
LogMessageNodeCall ==
    /\ call.pc = "ready"
    /\ call.type = "LogMessageNode"
    /\ call' = [call EXCEPT !.pc = "done",
                            !.outcome = LogMessageNodeExecute(call.inputData, call.params)]
    /\ UNCHANGED <<client, workflow, schedOut, executions, run, execLimit, invoked, returned, threw>>

\* A call of Mini N8N's LogMessageNode.execute.
MiniLogMessageNodeCall ==
    /\ call.pc = "ready"
    /\ call.type = "MiniLogMessageNode"
    /\ call' = [call EXCEPT !.pc = "done",
                            !.outcome = MiniLogMessageNodeExecute(call.inputData, call.params)]
    /\ UNCHANGED <<client, workflow, schedOut, executions, run, execLimit, invoked, returned, threw>>

InitExec ==
    /\ workflow = SampleWorkflow
    /\ schedOut = NotComputed
    /\ executions = [e \in ExecIds |-> NoExec]
    /\ run = [e \in ExecIds |-> IdleRun]
    /\ execLimit = 0
    /\ invoked = [e \in ExecIds |-> <<>>]
    /\ returned = [e \in ExecIds |-> {}]
    /\ threw = [e \in ExecIds |-> {}]
    /\ client = IdleClient
    /\ \E inputData \in InputLists, given \in BOOLEAN :
          \/ \E condition \in SeqsUpTo(CondLexemes, CondMaxLen) :
                 call = [pc |-> "ready", type |-> "IfNode", inputData |-> inputData,
                         params |-> IF given THEN [condition |-> condition] ELSE NoParams,
                         outcome |-> NoOutcome]
          \/ \E message \in SeqsUpTo(MsgLexemes, MsgMaxLen),
                type \in {"LogMessageNode", "MiniLogMessageNode"} :
                 call = [pc |-> "ready", type |-> type, inputData |-> inputData,
                         params |-> IF given THEN [message |-> message] ELSE NoParams,
                         outcome |-> NoOutcome]

NextExec == IfNodeCall \/ LogMessageNodeCall \/ MiniLogMessageNodeCall

SpecExec == InitExec /\ [][NextExec]_vars

\* ------------------------------------------- the three getExecutionOrder
\* Mini N8N's Workflow.getExecutionOrder (core/Workflow.ts). The endpoints of
\* a connection are not checked: graph.get(conn.from)!.push (line 39) throws
\* a TypeError for an unknown 'from'; an unknown 'to' makes a new inDegree
\* key, and once that id is dequeued and pushed to the order, the loop over
\* graph.get(nodeId)! (line 55) throws a TypeError.
ErrTypeError == "TypeError"
ErrMiniCycle == "Workflow has a cycle (loop) and cannot be executed."

MiniGetExecutionOrder(nodes, connections) ==
    IF \E i \in DOMAIN connections : connections[i].from \notin NodeIdsOf(nodes)
    THEN [error |-> ErrTypeError, order |-> <<>>]
    ELSE LET inDegree == [id \in NodeIdsOf(nodes) \cup {connections[i].to : i \in DOMAIN connections} |->
                             Cardinality({i \in DOMAIN connections : connections[i].to = id})]
             order == KahnLoop(connections, ZeroDegree(MapKeys(nodes), inDegree),
                               <<>>, inDegree)
         IN  IF ~(Range(order) \subseteq NodeIdsOf(nodes))
             THEN [error |-> ErrTypeError, order |-> <<>>]
             ELSE IF Len(order) # Len(nodes)
             THEN [error |-> ErrMiniCycle, order |-> <<>>]
             ELSE [error |-> NoError, order |-> order]

\* One workflow is given to each of the three schedulers; schedOut holds what
\* each has returned or thrown.
InitSched ==
    /\ workflow \in Workflows(SchedMaxNodes, SchedMaxConns, {"StartNode"}, {Ghost})
    /\ schedOut = [server |-> NotComputed, client |-> NotComputed, mini |-> NotComputed]
    /\ executions = [e \in ExecIds |-> NoExec]
    /\ run = [e \in ExecIds |-> IdleRun]
    /\ execLimit = 0
    /\ invoked = [e \in ExecIds |-> <<>>]
    /\ returned = [e \in ExecIds |-> {}]
    /\ threw = [e \in ExecIds |-> {}]
    /\ client = IdleClient
    /\ call = NoCall

ServerOrder ==
    /\ schedOut.server = NotComputed
    /\ schedOut' = [schedOut EXCEPT
                       !.server = GetExecutionOrder(workflow.nodes, workflow.connections)]
    /\ UNCHANGED <<client, call, workflow, executions, run, execLimit, invoked, returned, threw>>

ClientOrder ==
    /\ schedOut.client = NotComputed
    /\ schedOut' = [schedOut EXCEPT
                       !.client = ClientGetExecutionOrder(workflow.nodes, workflow.connections)]
    /\ UNCHANGED <<client, call, workflow, executions, run, execLimit, invoked, returned, threw>>

MiniOrder ==
    /\ schedOut.mini = NotComputed
    /\ schedOut' = [schedOut EXCEPT
                       !.mini = MiniGetExecutionOrder(workflow.nodes, workflow.connections)]
    /\ UNCHANGED <<client, call, workflow, executions, run, execLimit, invoked, returned, threw>>

NextSched == ServerOrder \/ ClientOrder \/ MiniOrder

SpecSched == InitSched /\ [][NextSched]_vars

\* ------------------------------------- getExecutionOrder, step by step
\* The call of getExecutionOrder with its locals: schedOut holds inDegree,
\* queue and executionOrder, and what the call returns or throws. pushed and
\* shifted are history: how often queue.push and queue.shift have been
\* called with each id.
KahnStart == [pc |-> "start", inDegree |-> EmptyMap, queue |-> <<>>,
              executionOrder |-> <<>>, pushed |-> EmptyMap, shifted |-> EmptyMap,
              order |-> <<>>, error |-> NoError]

Occurrences(s, x) == Cardinality({i \in DOMAIN s : s[i] = x})

\* Lines 107-134: the Maps are filled, the connections checked and counted,
\* and the ids of in-degree zero pushed to the queue.
KahnBuild ==
    /\ schedOut.pc = "start"
    /\ IF \E i \in DOMAIN workflow.connections :
              ~ValidConnection(workflow.nodes, workflow.connections[i])
       THEN schedOut' = [schedOut EXCEPT !.pc = "done", !.error = ErrInvalid]
       ELSE \E seeds \in {ZeroDegree(MapKeys(workflow.nodes),
                                     InDegrees(workflow.nodes, workflow.connections))} :
                schedOut' = [schedOut EXCEPT
                    !.pc = "loop",
                    !.inDegree = InDegrees(workflow.nodes, workflow.connections),
                    !.queue = seeds,
                    !.pushed = [id \in NodeIdsOf(workflow.nodes) |-> Occurrences(seeds, id)],
                    !.shifted = [id \in NodeIdsOf(workflow.nodes) |-> 0]]
    /\ UNCHANGED <<client, call, workflow, executions, run, execLimit, invoked, returned, threw>>

\* Lines 136-147: one turn of the while loop.
KahnIterate ==
    /\ schedOut.pc = "loop"
    /\ schedOut.queue # <<>>
    /\ \E step \in {ProcessNeighbors(Neighbors(workflow.connections, Head(schedOut.queue)),
                                     schedOut.inDegree, Tail(schedOut.queue))} :
           schedOut' = [schedOut EXCEPT
               !.inDegree = step.inDegree,
               !.queue = step.queue,
               !.executionOrder = Append(@, Head(schedOut.queue)),
               !.shifted = [@ EXCEPT ![Head(schedOut.queue)] = @ + 1],
               !.pushed = [id \in DOMAIN @ |->
                              @[id] + Occurrences(SubSeq(step.queue, Len(schedOut.queue),
                                                         Len(step.queue)), id)]]
    /\ UNCHANGED <<client, call, workflow, executions, run, execLimit, invoked, returned, threw>>

\* Lines 136, 150-154: the queue is empty; the order is returned if it is as
\* long as the node list.
KahnReturn ==
    /\ schedOut.pc = "loop"
    /\ schedOut.queue = <<>>
    /\ schedOut' = [schedOut EXCEPT
           !.pc = "done",
           !.error = IF Len(schedOut.executionOrder) # Len(workflow.nodes)
                     THEN ErrCycle ELSE NoError,
           !.order = IF Len(schedOut.executionOrder) # Len(workflow.nodes)
                     THEN <<>> ELSE schedOut.executionOrder]
    /\ UNCHANGED <<client, call, workflow, executions, run, execLimit, invoked, returned, threw>>

InitKahn ==
    /\ workflow \in Workflows(KahnMaxNodes, KahnMaxConns, {"StartNode"}, {Ghost})
    /\ schedOut = KahnStart
    /\ executions = [e \in ExecIds |-> NoExec]
    /\ run = [e \in ExecIds |-> IdleRun]
    /\ execLimit = 0
    /\ invoked = [e \in ExecIds |-> <<>>]
    /\ returned = [e \in ExecIds |-> {}]
    /\ threw = [e \in ExecIds |-> {}]
    /\ client = IdleClient
    /\ call = NoCall

NextKahn == KahnBuild \/ KahnIterate \/ KahnReturn

\* The call goes on until it returns or throws.
SpecKahn == InitKahn /\ [][NextKahn]_vars /\ WF_vars(NextKahn)

\* ------------------------------------------- the input of a node, alone
\* Lines 208-220 of executeWorkflow on their own: the connections, the
\* results stored so far and the node to be executed are given, the result
\* lists being of any length an executor may return, the empty list too.
GatherIds == {"n1", "n2"}

\* A result list of id: up to n records.
ResultLists(id, n) ==
    {[i \in 1..k |-> [producer |-> id, inputFrom |-> Undefined]] : k \in 0..n}

\* Results maps: for some of the ids a result list.
ResultMaps(n) ==
    UNION {{[id \in S |-> f[id]] :
               f \in {g \in [S -> UNION {ResultLists(id, n) : id \in S}] :
                         \A id \in S : g[id] \in ResultLists(id, n)}} :
              S \in SUBSET GatherIds}

\* The input of the node is gathered.
GatherCall ==
    /\ call.pc = "ready"
    /\ call.type = "gather"
    /\ call' = [call EXCEPT !.pc = "done",
                            !.inputData = GatherInput(call.connections,
                                                      call.executionResults, call.nodeId)]
    /\ UNCHANGED <<client, workflow, schedOut, executions, run, execLimit, invoked, returned, threw>>

InitGather ==
    /\ workflow = SampleWorkflow
    /\ schedOut = NotComputed
    /\ executions = [e \in ExecIds |-> NoExec]
    /\ run = [e \in ExecIds |-> IdleRun]
    /\ execLimit = 0
    /\ invoked = [e \in ExecIds |-> <<>>]
    /\ returned = [e \in ExecIds |-> {}]
    /\ threw = [e \in ExecIds |-> {}]
    /\ client = IdleClient
    /\ \E connections \in SeqsUpTo([from : GatherIds, to : GatherIds], GatherMaxConns),
          executionResults \in ResultMaps(GatherMaxRecords),
          nodeId \in GatherIds :
           call = [pc |-> "ready", type |-> "gather", connections |-> connections,
                   executionResults |-> executionResults, nodeId |-> nodeId,
                   inputData |-> <<>>]

NextGather == GatherCall

SpecGather == InitGather /\ [][NextGather]_vars

\* ------------------------------------------------------------- properties
IsPrefix(s, t) == Len(s) <= Len(t) /\ \A i \in DOMAIN s : s[i] = t[i]

\* getExecutionOrder has been called in the run of e.
Scheduled(e) == run[e].pc \notin {"idle", "log_starting", "log_name", "schedule"}

\* The part of the connections whose endpoints are nodes of the list.
KnownConnections(wf) == SelectSeq(wf.connections, LAMBDA c : ValidConnection(wf.nodes, c))

\* a comes before b in order.
Before(order, a, b) ==
    /\ IndexOf(order, a) > 0
    /\ IndexOf(order, b) > 0
    /\ IndexOf(order, a) < IndexOf(order, b)

\* C1: for an acyclic workflow whose connections all reference existing node
\* ids, every order getExecutionOrder returns has a before b for every
\* connection (a -> b), and with unique node ids it does return an order.
C1_TopologicalOrder ==
    (/\ schedOut # NotComputed
     /\ AllValid(workflow.nodes, workflow.connections)
     /\ ~HasCycle(workflow.connections))
    => /\ UniqueIds(workflow.nodes) => schedOut.error = NoError
       /\ schedOut.error = NoError =>
              \A i \in DOMAIN workflow.connections :
                  Before(schedOut.order, workflow.connections[i].from,
                         workflow.connections[i].to)

\* C1 witness: an order was returned for three nodes joined by two connections
\* that run against the order of the node list.
C1_Witness ==
    /\ schedOut.error = NoError
    /\ Len(workflow.nodes) = 3
    /\ workflow.connections = <<[from |-> "n3", to |-> "n2"], [from |-> "n2", to |-> "n1"]>>
    /\ schedOut.order = <<"n3", "n2", "n1">>

\* C2 as stated: whenever the connections contain a cycle, scheduling fails
\* with the cycle error, no executor is invoked and the results stay empty.
C2_CycleErrorAlways ==
    \A e \in ExecIds :
        (Scheduled(e) /\ HasCycle(KnownConnections(run[e].wf)))
        => /\ run[e].error = ErrCycle
           /\ invoked[e] = <<>>
           /\ DOMAIN executions[e].results.entries = {}

\* C2 amended: when the connections contain a cycle, scheduling fails, with
\* the cycle error if every connection references existing node ids and with
\* the invalid-connection error otherwise; no executor is invoked and the
\* results, of the run and of the stored execution, stay empty.
C2_CycleFails ==
    \A e \in ExecIds :
        (Scheduled(e) /\ HasCycle(run[e].wf.connections))
        => /\ run[e].error = IF AllValid(run[e].wf.nodes, run[e].wf.connections)
                              THEN ErrCycle ELSE ErrInvalid
           /\ run[e].pc \in {"log_wf_failed", "mark_wf_failed", "done"}
           /\ invoked[e] = <<>>
           /\ DOMAIN run[e].executionResults = {}
           /\ DOMAIN executions[e].results.entries = {}

\* C2 witness: the run of a workflow with the cycle n1 -> n2 -> n1 has ended,
\* failed with the cycle error.
C2_Witness ==
    \E e \in ExecIds :
        /\ run[e].pc = "done"
        /\ run[e].wf.connections = <<[from |-> "n1", to |-> "n2"], [from |-> "n2", to |-> "n1"]>>
        /\ run[e].error = ErrCycle
        /\ executions[e].status = "failed"

\* C3 as stated: once the stored status is completed, failed or stopped, no
\* step changes it.
C3_TerminalStatusStays ==
    [][\A e \in ExecIds : executions[e].status \in Terminal
                              => executions'[e].status = executions[e].status]_vars

\* C4 as stated: while the stored status is stopped, no step calls an executor.
C4_NoInvokeAfterStop ==
    [][\A e \in ExecIds : executions[e].status = "stopped" => invoked'[e] = invoked[e]]_vars

\* C5 as stated: when an executor has thrown and the stored execution has
\* ended failed, its results hold an entry for exactly the nodes whose
\* executor returned.
C5_FailedKeepsResults ==
    \A e \in ExecIds :
        (run[e].pc = "done" /\ threw[e] # {} /\ executions[e].status = "failed")
        => DOMAIN executions[e].results.entries = returned[e]

C7_LogsAppendOnly ==
    [][\A e \in ExecIds : IsPrefix(executions[e].logs, executions'[e].logs)]_vars

\* C7 witness: a stop request was handled between the read and the update of
\* an addLog call, with entries already logged.
C7_Witness ==
    \E e \in ExecIds :
        /\ run[e].haveRead
        /\ run[e].execution.status = "running"
        /\ executions[e].status = "stopped"
        /\ Len(executions[e].logs) >= 2

\* C8: an execution that is running eventually has a terminal status.
C8_EventuallyTerminal ==
    \A e \in ExecIds :
        (executions[e].status = "running") ~> (executions[e].status \in Terminal)

\* C8 witness: a run whose scheduling failed has ended with the execution
\* failed, and no stop request was involved.
C8_Witness ==
    \E e \in ExecIds :
        /\ run[e].pc = "done"
        /\ run[e].error = ErrCycle
        /\ executions[e].status = "failed"
        /\ executions[e].completedAt = "loop"

\* C9: once an executor has thrown, no step calls an executor.
C9_NoInvokeAfterFailure ==
    [][\A e \in ExecIds : threw[e] # {} => invoked'[e] = invoked[e]]_vars

\* C9 witness: the run has ended after an executor threw, with a node of the
\* order left that was never called.
C9_Witness ==
    \E e \in ExecIds :
        /\ run[e].pc = "done"
        /\ threw[e] # {}
        /\ Len(invoked[e]) < Len(run[e].executionOrder)

\* C10: when a connection references an id that is not in the node list,
\* scheduling throws the invalid-connection error into the outer catch, and no
\* executor is ever called.
C10_InvalidConnection ==
    \A e \in ExecIds :
        ~AllValid(run[e].wf.nodes, run[e].wf.connections)
        => /\ invoked[e] = <<>>
           /\ Scheduled(e) => /\ run[e].error = ErrInvalid
                               /\ run[e].pc \in {"log_wf_failed", "mark_wf_failed", "done"}
           /\ run[e].pc = "done"
                 => /\ executions[e].logs[Len(executions[e].logs)].detail = ErrInvalid
                    /\ executions[e].status \in {"failed", "stopped"}

\* C10 witness: the run of a workflow with a cycle and a connection to an
\* unknown id has ended, failed with the invalid-connection error.
C10_Witness ==
    \E e \in ExecIds :
        /\ run[e].pc = "done"
        /\ run[e].wf.connections = <<[from |-> "n1", to |-> "n1"], [from |-> "n1", to |-> Ghost]>>
        /\ run[e].error = ErrInvalid
        /\ executions[e].status = "failed"

\* The records stored in a results map.
RecordsOf(entries) == UNION {Range(entries[n]) : n \in DOMAIN entries}

\* C11: with two executions of the workflow running concurrently, every log
\* entry and every result record of an execution's stored record, and of its
\* run's results map, was made by the run of that execution.
C11_RunsDoNotMix ==
    \A e \in ExecIds :
        /\ \A i \in DOMAIN executions[e].logs : executions[e].logs[i].madeBy = e
        /\ \A r \in RecordsOf(executions[e].results.entries) : r.madeBy = e
        /\ \A r \in RecordsOf(run[e].executionResults) : r.madeBy = e
        /\ \A r \in Range(run[e].inputData) : r # EmptyRecord => r.madeBy = e

\* C11 witness: the first execution has ended completed with its results
\* stored while the executor of the second, whose log has entries, is in flight.
C11_Witness ==
    /\ run["e1"].pc = "done"
    /\ executions["e1"].status = "completed"
    /\ DOMAIN executions["e1"].results.entries # {}
    /\ run["e2"].pc = "executing"
    /\ Len(executions["e2"].logs) >= 3

\* No connection of the list goes into id.
NoIncoming(connections, id) == \A i \in DOMAIN connections : connections[i].to # id

\* C12: in an order getExecutionOrder returns, of two nodes without incoming
\* connection the one that is earlier in the node list comes first.
C12_SeedsInNodeListOrder ==
    schedOut.error = NoError
    => \A i, j \in DOMAIN workflow.nodes :
           (/\ i < j
            /\ NoIncoming(workflow.connections, workflow.nodes[i].id)
            /\ NoIncoming(workflow.connections, workflow.nodes[j].id))
           => Before(schedOut.order, workflow.nodes[i].id, workflow.nodes[j].id)

\* C12 witness: n1 and n3 have no incoming connection, n2 has one from n3, and
\* the order returned has n1, then n3, then n2.
C12_Witness ==
    /\ workflow.connections = <<[from |-> "n3", to |-> "n2"]>>
    /\ Len(workflow.nodes) = 3
    /\ schedOut.error = NoError
    /\ schedOut.order = <<"n1", "n3", "n2">>

\* C13: an executor called for a node without incoming connection is given
\* a list of exactly one empty record.
C13_NoIncomingOneEmptyRecord ==
    \A e \in ExecIds :
        (/\ run[e].pc = "executing"
         /\ NoIncoming(run[e].wf.connections, CurrentNodeId(run[e])))
        => run[e].inputData = <<EmptyRecord>>

\* C13 witness: the second node of the order, without incoming connection in
\* a workflow that has connections, is being executed on one empty record.
C13_Witness ==
    \E e \in ExecIds :
        /\ run[e].pc = "executing"
        /\ run[e].done = 1
        /\ run[e].wf.connections # <<>>
        /\ NoIncoming(run[e].wf.connections, CurrentNodeId(run[e]))
        /\ run[e].inputData = <<EmptyRecord>>

\* The lists of a sequence of lists, one after the other.
RECURSIVE Flatten(_)
Flatten(lists) ==
    IF lists = <<>> THEN <<>> ELSE Head(lists) \o Flatten(Tail(lists))

\* The connections of the list that go into id, in the order of the list.
Incoming(connections, id) == SelectSeq(connections, LAMBDA c : c.to = id)

\* C14: an executor called for a node with incoming connections is given the
\* result lists stored for the 'from' nodes of those connections, one after
\* the other in the order of the connection list.
C14_InputInConnectionOrder ==
    \A e \in ExecIds :
        (/\ run[e].pc = "executing"
         /\ ~NoIncoming(run[e].wf.connections, CurrentNodeId(run[e])))
        => LET inc == Incoming(run[e].wf.connections, CurrentNodeId(run[e]))
           IN  /\ \A i \in DOMAIN inc : inc[i].from \in DOMAIN run[e].executionResults
               /\ run[e].inputData =
                      Flatten([i \in DOMAIN inc |-> run[e].executionResults[inc[i].from]])

\* C14 witness: n3 is being executed with the connections n2 -> n3, n1 -> n3 in
\* that order, on the record of n2 followed by the record of n1.
C14_Witness ==
    \E e \in ExecIds :
        /\ run[e].pc = "executing"
        /\ CurrentNodeId(run[e]) = "n3"
        /\ run[e].executionOrder = <<"n1", "n2", "n3">>
        /\ run[e].wf.connections = <<[from |-> "n2", to |-> "n3"], [from |-> "n1", to |-> "n3"]>>
        /\ Len(run[e].inputData) = 2
        /\ run[e].inputData[1].producer = "n2"
        /\ run[e].inputData[2].producer = "n1"

\* C15: with no stop request, a run that has ended with no error from
\* scheduling and no executor failure leaves the execution completed, with
\* completedAt set, currentNodeId cleared and a result for every node.
C15_SuccessCompletes ==
    \A e \in ExecIds :
        (run[e].pc = "done" /\ run[e].error = NoError /\ threw[e] = {})
        => /\ returned[e] = NodeIdsOf(run[e].wf.nodes)
           /\ executions[e].status = "completed"
           /\ executions[e].completedAt # Undefined
           /\ executions[e].currentNodeId = Undefined
           /\ executions[e].results.present
           /\ DOMAIN executions[e].results.entries = NodeIdsOf(run[e].wf.nodes)

\* C15 witness: the run of a workflow of three nodes has ended completed, a
\* result stored for each of the three.
C15_Witness ==
    \E e \in ExecIds :
        /\ run[e].pc = "done"
        /\ executions[e].status = "completed"
        /\ Cardinality(DOMAIN executions[e].results.entries) = 3
        /\ Len(run[e].wf.connections) = 2

\* The executors called and neither returned nor failed yet.
InFlight(e) == Len(invoked[e]) - Cardinality(returned[e] \cup threw[e])

\* C16: the executors called in an execution are, in the order of the calls,
\* the first nodes of the computed order, and at most one call has not ended,
\* the one the run is waiting for.
C16_SequentialInOrder ==
    \A e \in ExecIds :
        /\ IsPrefix(invoked[e], run[e].executionOrder)
        /\ InFlight(e) \in {0, 1}
        /\ InFlight(e) = 1 <=> run[e].pc = "executing"

\* C16 witness: the third executor of the sample workflow is in flight, after
\* the first two calls have ended.
C16_Witness ==
    \E e \in ExecIds :
        /\ run[e].pc = "executing"
        /\ invoked[e] = <<"start-node", "fetch-node", "log-node">>
        /\ returned[e] = {"start-node", "fetch-node"}

\* C17: for every node whose executor has been called, the executor of the
\* 'from' node of each of its incoming connections has returned, and the
\* input of the executor in flight holds every record of those outputs.
C17_UpstreamReturnedFirst ==
    \A e \in ExecIds :
        /\ \A i \in DOMAIN invoked[e] :
              \A k \in DOMAIN run[e].wf.connections :
                  run[e].wf.connections[k].to = invoked[e][i]
                  => run[e].wf.connections[k].from \in returned[e]
        /\ run[e].pc = "executing"
              => \A k \in DOMAIN run[e].wf.connections :
                     run[e].wf.connections[k].to = CurrentNodeId(run[e])
                     => /\ run[e].wf.connections[k].from \in DOMAIN run[e].executionResults
                        /\ Range(run[e].executionResults[run[e].wf.connections[k].from])
                               \subseteq Range(run[e].inputData)

\* C17 witness: the executor of n1, last of the chain n3 -> n2 -> n1, is in
\* flight after those of n3 and n2 returned.
C17_Witness ==
    \E e \in ExecIds :
        /\ run[e].pc = "executing"
        /\ CurrentNodeId(run[e]) = "n1"
        /\ run[e].wf.connections = <<[from |-> "n3", to |-> "n2"], [from |-> "n2", to |-> "n1"]>>
        /\ returned[e] = {"n3", "n2"}
        /\ run[e].inputData[1].producer = "n2"

\* C18 as stated: once the stored status is completed, failed or stopped, no
\* step changes the stored record: status, completedAt, currentNodeId, logs
\* and results stay as they are.
C18_TerminalRecordFrozen ==
    [][\A e \in ExecIds :
          executions[e].status \in Terminal
          => /\ executions'[e].status = executions[e].status
             /\ executions'[e].completedAt = executions[e].completedAt
             /\ executions'[e].currentNodeId = executions[e].currentNodeId
             /\ executions'[e].logs = executions[e].logs
             /\ executions'[e].results = executions[e].results]_vars

\* C19: for a workflow in which two nodes share an id, getExecutionOrder
\* throws and no executor is ever called.
C19_DuplicateIdsRejected ==
    \A e \in ExecIds :
        ~UniqueIds(run[e].wf.nodes)
        => /\ invoked[e] = <<>>
           /\ Scheduled(e) => /\ run[e].error \in {ErrCycle, ErrInvalid}
                               /\ run[e].pc \in {"log_wf_failed", "mark_wf_failed", "done"}
           /\ run[e].pc = "done" => executions[e].status \in {"failed", "stopped"}

\* C19 witness: the run of a workflow of two nodes with the id n1 and no
\* connection has ended failed.
C19_Witness ==
    \E e \in ExecIds :
        /\ run[e].pc = "done"
        /\ Len(run[e].wf.nodes) = 2
        /\ NodeIdsOf(run[e].wf.nodes) = {"n1"}
        /\ run[e].wf.connections = <<>>
        /\ run[e].error = ErrCycle
        /\ executions[e].status = "failed"

\* C20: in an execution no node's executor is called twice.
C20_InvokedAtMostOnce ==
    \A e \in ExecIds :
        \A i, j \in DOMAIN invoked[e] : invoked[e][i] = invoked[e][j] => i = j

\* C20 witness: the run has ended failed after the second executor threw,
\* each of the two nodes called once.
C20_Witness ==
    \E e \in ExecIds :
        /\ run[e].pc = "done"
        /\ Len(invoked[e]) = 2
        /\ threw[e] = {invoked[e][2]}
        /\ executions[e].status = "failed"

\* C26: in the execution of a workflow with a connection to or from an
\* unknown id, or with a cycle, the stored currentNodeId is never set and no
\* log entry carries a node id; the run goes from getExecutionOrder to the
\* outer catch, and when it has ended the execution is failed (or stopped by
\* a stop request) with the scheduling error as its last entry.
C26_SchedulingFailureZeroStep ==
    \A e \in ExecIds :
        (~AllValid(run[e].wf.nodes, run[e].wf.connections) \/ HasCycle(run[e].wf.connections))
        => /\ executions[e].currentNodeId = Undefined
           /\ \A i \in DOMAIN executions[e].logs : executions[e].logs[i].nodeId = Undefined
           /\ Scheduled(e) => run[e].pc \in {"log_wf_failed", "mark_wf_failed", "done"}
           /\ run[e].pc = "done"
                 => /\ executions[e].status \in {"failed", "stopped"}
                    /\ Len(executions[e].logs) = 3
                    /\ executions[e].logs[3].message = "Workflow execution failed"
                    /\ executions[e].logs[3].detail \in {ErrInvalid, ErrCycle}

\* C26 witness: the run of a workflow whose second node is on a self-loop has
\* ended failed with three entries in the log.
C26_Witness ==
    \E e \in ExecIds :
        /\ run[e].pc = "done"
        /\ Len(run[e].wf.nodes) = 2
        /\ run[e].wf.connections = <<[from |-> "n2", to |-> "n2"]>>
        /\ executions[e].status = "failed"
        /\ Len(executions[e].logs) = 3

\* The error entry addLog appends for the failure of node n with message m.
IsErrorEntry(entry, n, m) ==
    /\ entry.level = "error"
    /\ entry.message = "ERROR"
    /\ entry.nodeId = n
    /\ entry.detail = m

\* C27: in a step that makes the stored status failed after an executor threw,
\* the stored log already holds the error entry with the id of the node that
\* failed and the failure message, and the step sets completedAt and clears
\* currentNodeId.
C27_ErrorLoggedBeforeFailed ==
    [][\A e \in ExecIds :
          (/\ threw[e] # {}
           /\ executions[e].status # "failed"
           /\ executions'[e].status = "failed")
          => /\ \E i \in DOMAIN executions[e].logs :
                    \E n \in threw[e] : IsErrorEntry(executions[e].logs[i], n, run[e].error)
             /\ executions'[e].logs = executions[e].logs
             /\ executions'[e].completedAt # Undefined
             /\ executions'[e].currentNodeId = Undefined]_vars

\* C27 witness: the execution is failed after the second executor threw, with
\* the error entry of that node last in the log.
C27_Witness ==
    \E e \in ExecIds :
        /\ executions[e].status = "failed"
        /\ Len(invoked[e]) = 2
        /\ threw[e] = {invoked[e][2]}
        /\ IsErrorEntry(executions[e].logs[Len(executions[e].logs)], invoked[e][2], run[e].error)
        /\ executions[e].currentNodeId = Undefined

\* The entries of a log that carry a node id, as <<message, nodeId>>.
NodeEntries(logs) ==
    LET sel == SelectSeq(logs, LAMBDA entry : entry.nodeId # Undefined)
    IN  [i \in DOMAIN sel |-> <<sel[i].message, sel[i].nodeId>>]

\* The two entries of a node that ran and returned.
RECURSIVE EntriesOfReturned(_)
EntriesOfReturned(nodeIds) ==
    IF nodeIds = <<>> THEN <<>>
    ELSE <<(<<"Executing Node", Head(nodeIds)>>), (<<"Output", Head(nodeIds)>>)>>
         \o EntriesOfReturned(Tail(nodeIds))

\* C28: the entries with a node id of the stored log are, node after node in
\* the computed order, the invocation entry and then the output entry of each
\* node whose executor returned; every node whose executor was called has its
\* invocation entry, every output entry holds the output stored for its node,
\* and a node whose executor threw has its invocation entry and the error
\* entry, no output entry.
C28_InvocationAndOutputEntries ==
    \A e \in ExecIds :
        LET entries == NodeEntries(executions[e].logs)
            full == EntriesOfReturned(SubSeq(run[e].executionOrder, 1, run[e].done))
        IN  /\ IsPrefix(full, entries)
            /\ Len(entries) <= Len(full) + 2
            /\ \A i \in DOMAIN invoked[e] :
                   \E k \in DOMAIN entries : entries[k] = <<"Executing Node", invoked[e][i]>>
            /\ \A n \in threw[e] : \A k \in DOMAIN entries : entries[k] # <<"Output", n>>
            /\ \A k \in DOMAIN entries :
                   entries[k][1] = "Output" => entries[k][2] \in returned[e]
            /\ \A i \in DOMAIN executions[e].logs :
                   executions[e].logs[i].message = "Output"
                   => /\ executions[e].logs[i].level = "info"
                      /\ executions[e].logs[i].detail =
                             run[e].executionResults[executions[e].logs[i].nodeId]

\* C28 witness: the run has ended after the first executor returned and the
\* second threw: the log has the invocation and output entries of the first
\* node, then the invocation and error entries of the second.
C28_Witness ==
    \E e \in ExecIds :
        /\ run[e].pc = "done"
        /\ Len(invoked[e]) = 2
        /\ NodeEntries(executions[e].logs) =
               <<(<<"Executing Node", invoked[e][1]>>), (<<"Output", invoked[e][1]>>),
                 (<<"Executing Node", invoked[e][2]>>), (<<"ERROR", invoked[e][2]>>)>>

\* C29: while the executor of a node is in flight, the stored currentNodeId
\* of the execution is that node.
C29_CurrentNodeWhileInFlight ==
    \A e \in ExecIds :
        run[e].pc = "executing" => executions[e].currentNodeId = CurrentNodeId(run[e])

\* C29 witness: a stop request was handled while the second executor of the
\* run is in flight.
C29_Witness ==
    \E e \in ExecIds :
        /\ run[e].pc = "executing"
        /\ run[e].done = 1
        /\ executions[e].status = "stopped"
        /\ executions[e].currentNodeId = CurrentNodeId(run[e])

\* C30: the stored completedAt of an execution is set exactly when its
\* stored status is not running.
C30_CompletedAtIffNotRunning ==
    \A e \in Started :
        executions[e].completedAt # Undefined <=> executions[e].status # "running"

\* C30 witness: the run loop has marked completed an execution that a stop
\* request had stopped.
C30_Witness ==
    \E e \in ExecIds :
        /\ executions[e].status = "completed"
        /\ executions[e].completedAt = "loop"
        /\ run[e].execution.status = "stopped"

\* The nodes of wf with the id n.
NodesWithId(wf, n) == {wf.nodes[i] : i \in {j \in DOMAIN wf.nodes : wf.nodes[j].id = n}}

\* C22: the requests made in a run are as many as the executors called for a
\* FetchApiNode with a non-empty url: none is made for a FetchApiNode whose
\* url is absent or empty. The executor of such a node does not return, the
\* error it throws is the missing-url error, and the run ends with that
\* error in the error entry and the execution failed.
C22_MissingUrlFailsBeforeRequest ==
    \A e \in ExecIds :
        /\ run[e].httpCalls =
              Cardinality({i \in DOMAIN invoked[e] :
                              \E node \in NodesWithId(run[e].wf, invoked[e][i]) :
                                  /\ node.type = "FetchApiNode"
                                  /\ node.params.url \notin {Undefined, ""}})
        /\ \A i \in DOMAIN invoked[e] :
              \A node \in NodesWithId(run[e].wf, invoked[e][i]) :
                  (node.type = "FetchApiNode" /\ node.params.url \in {Undefined, ""})
                  => /\ node.id \notin returned[e]
                     /\ node.id \in threw[e] => run[e].error = ErrUrlRequired
                     /\ run[e].pc = "done"
                           => /\ node.id \in threw[e]
                              /\ executions[e].status = "failed"
                              /\ IsErrorEntry(executions[e].logs[Len(executions[e].logs)],
                                              node.id, ErrUrlRequired)

\* C22 witness: after a FetchApiNode with a url made its request and
\* returned, the run has ended failed at a FetchApiNode with an empty url,
\* with the one request made.
C22_Witness ==
    \E e \in ExecIds :
        /\ run[e].pc = "done"
        /\ Len(invoked[e]) = 2
        /\ FindNode(run[e].wf.nodes, invoked[e][1]).params.url = SomeUrl
        /\ FindNode(run[e].wf.nodes, invoked[e][2]).params.url = ""
        /\ FindNode(run[e].wf.nodes, invoked[e][2]).type = "FetchApiNode"
        /\ run[e].httpCalls = 1
        /\ run[e].error = ErrUrlRequired
        /\ executions[e].status = "failed"

\* C21: a node whose type has no executor in the registry is surfaced as a
\* failed node execution. Once the client engine has told onProgress that
\* such a node is "executing", the call is rejected, the next and last thing
\* onProgress is told is that the node "failed", the last console.error line
\* carries the node's id, the node has no entry in executionResults, its
\* executor was never called, and no node after it in the order was called.
C21_UnregisteredTypeFailsNode ==
    \A i \in DOMAIN client.progress :
        (/\ client.progress[i][2] = "executing"
         /\ FindNode(workflow.nodes, client.progress[i][1]).type \notin ClientNodeRegistry)
        => /\ client.pc = "rejected"
           /\ Len(client.progress) = i + 1
           /\ client.progress[i + 1] = <<client.progress[i][1], "failed">>
           /\ client.consoleErrors # <<>>
           /\ client.consoleErrors[Len(client.consoleErrors)] = client.progress[i][1]
           /\ client.progress[i][1] \notin DOMAIN client.executionResults
           /\ client.progress[i][1] = ClientNodeId
           /\ Range(client.invoked) \subseteq
                  Range(SubSeq(client.executionOrder, 1, client.done))

\* A run rejected at a node of unregistered type that has a node after it.
C21_Witness ==
    /\ client.pc = "rejected"
    /\ client.error = ErrNotRegistered
    /\ client.done + 1 < Len(client.executionOrder)
    /\ client.progress # <<>>

\* The condition an IfNode call is given, and the record it is evaluated on.
ConditionOf(c) == IF "condition" \in DOMAIN c.params THEN c.params.condition ELSE <<TrueLit>>

\* The condition has a placeholder whose path is missing from the record.
HasMissingPath(condition, data) ==
    \E i \in DOMAIN condition :
        condition[i].k = "ph" /\ WalkOptional(data, condition[i].path).t = "undefined"

\* C23: the Branch step, given a condition with a placeholder whose dotted
\* path is missing from the first input record, fails with a
\* condition-evaluation error and returns no conditionResult.
C23_MissingPathFails ==
    (/\ call.pc = "done"
     /\ call.type = "IfNode"
     /\ HasMissingPath(ConditionOf(call), FirstOrEmpty(call.inputData)))
    => (call.outcome.threw /\ call.outcome.output = <<>>)

\* The text has an arithmetic operator or an assignment: it is outside the
\* grammar of literals, equality, numeric comparison and and/or/not.
OutsideGrammar(tokens) ==
    \E i \in DOMAIN tokens : tokens[i].k = "effect" \/ (tokens[i].k = "op" /\ tokens[i].s = "*")

\* C24: the Branch step evaluates its substituted condition only against the
\* restricted boolean grammar: a condition outside the grammar fails with a
\* condition-evaluation error and none of it is run as code.
C24_OutsideGrammarFails ==
    (/\ call.pc = "done"
     /\ call.type = "IfNode"
     /\ OutsideGrammar(Substituted(ConditionOf(call), FirstOrEmpty(call.inputData))))
    => (call.outcome.threw /\ call.outcome.effects = 0)

\* The message with each placeholder that resolves in the record replaced by
\* the value found there, the others left as they are.
Rendered(message, data) ==
    [i \in DOMAIN message |->
        IF message[i].k = "ph" /\ WalkOptional(data, message[i].path).t = "num"
        THEN NumLit(WalkOptional(data, message[i].path).n)
        ELSE message[i]]

\* C25: the Log step renders its message template against the first input
\* record: the logMessage it returns has every placeholder that resolves
\* replaced by its value and every other placeholder left literal, and the
\* step does not fail.
C25_LogMessageRendered ==
    (/\ call.pc = "done"
     /\ call.type = "LogMessageNode"
     /\ "message" \in DOMAIN call.params)
    => /\ ~call.outcome.threw
       /\ call.outcome.output[1].logMessage =
              Rendered(call.params.message, FirstOrEmpty(call.inputData))

\* C32: when getExecutionOrder succeeds, the order it returns is a
\* permutation of the workflow's node ids: it is as long as the node list,
\* no id occurs in it twice, every node id occurs in it and every id in it is
\* a node id.
C32_OrderIsPermutation ==
    (schedOut # NotComputed /\ schedOut.error = NoError)
    => /\ Len(schedOut.order) = Len(workflow.nodes)
       /\ \A i, j \in DOMAIN schedOut.order :
              schedOut.order[i] = schedOut.order[j] => i = j
       /\ Range(schedOut.order) = NodeIdsOf(workflow.nodes)

\* An order of three nodes that is not the order of the node list.
C32_Witness ==
    /\ schedOut # NotComputed
    /\ schedOut.error = NoError
    /\ Len(schedOut.order) = 3
    /\ schedOut.order # MapKeys(workflow.nodes)

\* Each of the three schedulers has returned or thrown.
AllComputed ==
    /\ schedOut.server # NotComputed
    /\ schedOut.client # NotComputed
    /\ schedOut.mini # NotComputed

\* The three outputs agree: all three are the same order, or all three are
\* an error.
SameOutcome ==
    /\ schedOut.server.order = schedOut.client.order
    /\ schedOut.server.order = schedOut.mini.order
    /\ (schedOut.server.error = NoError) = (schedOut.client.error = NoError)
    /\ (schedOut.server.error = NoError) = (schedOut.mini.error = NoError)

AllReject ==
    /\ schedOut.server.error # NoError
    /\ schedOut.client.error # NoError
    /\ schedOut.mini.error # NoError

\* C35 as stated: the three schedulers compute the same order for every
\* workflow with unique node ids whose connections all reference existing
\* nodes, and all three reject every cyclic workflow.
C35_SameOrderAndCyclesRejected ==
    AllComputed =>
        /\ (UniqueIds(workflow.nodes) /\ AllValid(workflow.nodes, workflow.connections))
           => SameOutcome /\ (~HasCycle(workflow.connections) => ~AllReject)
        /\ HasCycle(workflow.connections) => AllReject

\* C36 as stated: in the client engine and in Mini N8N's Workflow, a
\* connection that references an id absent from the node list is reported
\* as a validation failure, never as a runtime crash and never as a cycle
\* error.
C36_UnknownEndpointIsValidationFailure ==
    (AllComputed /\ ~AllValid(workflow.nodes, workflow.connections))
    => /\ schedOut.client.error = ErrInvalid
       /\ schedOut.mini.error = ErrInvalid

\* C37: in the client engine's executeWorkflow the onProgress calls come in
\* pairs, one pair for each node and the pairs in the computed order:
\* "executing", then "completed" or "failed"; only the node whose executor
\* is running has "executing" alone. "failed" is the last call there is, and
\* the call of executeWorkflow is rejected with it; a call that resolves has
\* told "completed" for every node.
C37_ProgressPairsInOrder ==
    /\ \A i \in DOMAIN client.progress :
           /\ (i + 1) \div 2 \in DOMAIN client.executionOrder
           /\ client.progress[i][1] = client.executionOrder[(i + 1) \div 2]
           /\ i % 2 = 1 => client.progress[i][2] = "executing"
           /\ i % 2 = 0 => client.progress[i][2] \in {"completed", "failed"}
           /\ client.progress[i][2] = "failed"
              => (i = Len(client.progress) /\ client.pc = "rejected")
    /\ Len(client.progress) % 2 = 1 <=> client.pc = "executing"
    /\ client.pc = "resolved"
       => /\ Len(client.progress) = 2 * Len(client.executionOrder)
          /\ \A i \in DOMAIN client.progress : client.progress[i][2] # "failed"

\* A run of two nodes of which the first completed and the second failed.
C37_Witness ==
    /\ client.pc = "rejected"
    /\ Len(client.progress) = 4
    /\ client.progress[2][2] = "completed"
    /\ client.progress[4][2] = "failed"
    /\ client.progress[1][1] # client.progress[3][1]

\* No id has been pushed to the queue or shifted from it more than once, and
\* no in-degree counter is negative.
QueuedOnceAndCountersNatural ==
    /\ \A id \in DOMAIN schedOut.pushed :
           /\ schedOut.pushed[id] <= 1
           /\ schedOut.shifted[id] <= schedOut.pushed[id]
    /\ \A id \in DOMAIN schedOut.inDegree : schedOut.inDegree[id] >= 0

\* C33: getExecutionOrder terminates for every node and connection list,
\* cyclic or not: the call always comes to return or throw, each node id is
\* enqueued and dequeued at most once, and no in-degree counter ever becomes
\* negative.
C33_SchedulingTerminates ==
    /\ []QueuedOnceAndCountersNatural
    /\ <>(schedOut.pc = "done")

\* The call has ended with the cycle error after a turn of the loop, for a
\* workflow with a cycle and a node outside it.
C33_Witness ==
    /\ schedOut.pc = "done"
    /\ schedOut.error = ErrCycle
    /\ HasCycle(workflow.connections)
    /\ \E id \in DOMAIN schedOut.shifted : schedOut.shifted[id] = 1

\* The number of connections of the list that go from a to b.
Parallel(connections, a, b) ==
    Cardinality({i \in DOMAIN connections :
                    connections[i].from = a /\ connections[i].to = b})

\* C38: with two or more connections from a to b, in a workflow without
\* cycle and with unique node ids, scheduling succeeds with a before b, and
\* the executor of b is given the result records of a once for each of these
\* connections.
C38_ParallelEdges ==
    \A e \in ExecIds :
        \A a, b \in NodeIdsOf(run[e].wf.nodes) :
            (/\ Scheduled(e)
             /\ Parallel(run[e].wf.connections, a, b) >= 2
             /\ ~HasCycle(run[e].wf.connections)
             /\ UniqueIds(run[e].wf.nodes))
            => /\ run[e].error \in {NoError, ErrNodeFailed}
               /\ Before(run[e].executionOrder, a, b)
               /\ (run[e].pc = "executing" /\ CurrentNodeId(run[e]) = b)
                  => /\ a \in DOMAIN run[e].executionResults
                     /\ Len(SelectSeq(run[e].inputData, LAMBDA r : r.producer = a))
                            = Parallel(run[e].wf.connections, a, b)
                              * Len(run[e].executionResults[a])

\* n2 is being executed on two records of n1, the connection n1 -> n2 being
\* there twice.
C38_Witness ==
    \E e \in ExecIds :
        /\ run[e].pc = "executing"
        /\ CurrentNodeId(run[e]) = "n2"
        /\ run[e].wf.connections = <<[from |-> "n1", to |-> "n2"], [from |-> "n1", to |-> "n2"]>>
        /\ Len(run[e].inputData) = 2
        /\ run[e].inputData[1].producer = "n1"
        /\ run[e].inputData[2].producer = "n1"

\* C39: a node that has incoming connections, all from nodes whose result
\* lists are empty, is executed with an empty input list; the list of one
\* empty record is the input only of a node with no incoming connection.
C39_EmptyUpstreamEmptyInput ==
    (call.pc = "done" /\ call.type = "gather")
    => /\ (/\ ~NoIncoming(call.connections, call.nodeId)
           /\ \A i \in DOMAIN call.connections :
                  call.connections[i].to = call.nodeId
                  => /\ call.connections[i].from \in DOMAIN call.executionResults
                     /\ call.executionResults[call.connections[i].from] = <<>>)
          => call.inputData = <<>>
       /\ call.inputData = <<EmptyRecord>> <=> NoIncoming(call.connections, call.nodeId)

\* The input of n2 has been gathered over the connection n1 -> n2, the result
\* list of n1 being empty, and it is empty.
C39_Witness ==
    /\ call.pc = "done"
    /\ call.type = "gather"
    /\ call.nodeId = "n2"
    /\ call.connections = <<[from |-> "n1", to |-> "n2"]>>
    /\ "n1" \in DOMAIN call.executionResults
    /\ call.executionResults["n1"] = <<>>
    /\ call.inputData = <<>>

\* C31: the result of a Branch node prunes nothing: a run that has ended
\* with no error from scheduling and no executor failure has called the
\* executors of the whole order, every node of the node list has returned,
\* and so has every node downstream of a Branch node, be its outputPath
\* "true" or "false".
C31_BranchDoesNotPrune ==
    \A e \in ExecIds :
        (run[e].pc = "done" /\ run[e].error = NoError /\ threw[e] = {})
        => /\ invoked[e] = run[e].executionOrder
           /\ returned[e] = NodeIdsOf(run[e].wf.nodes)
           /\ \A i \in DOMAIN run[e].wf.nodes :
                  run[e].wf.nodes[i].type = "IfNode"
                  => /\ run[e].executionResults[run[e].wf.nodes[i].id][1].outputPath
                            \in {"true", "false"}
                     /\ Successors(run[e].wf.connections, run[e].wf.nodes[i].id)
                            \subseteq returned[e]

\* C31 witness: a run has ended without failure, its Branch node n1 returned
\* outputPath "false", and the node n2 downstream of it has returned.
C31_Witness ==
    \E e \in ExecIds :
        /\ run[e].pc = "done"
        /\ run[e].error = NoError
        /\ threw[e] = {}
        /\ FindNode(run[e].wf.nodes, "n1").type = "IfNode"
        /\ run[e].executionResults["n1"][1].outputPath = "false"
        /\ "n2" \in Successors(run[e].wf.connections, "n1")
        /\ "n2" \in returned[e]

\* What one step does to the run e, as seen from the workflow the run holds.
RunsOnItsWorkflow(e) ==
    /\ (run[e].pc = "idle" /\ run'[e].pc # "idle") => run'[e].wf = workflow
    /\ run[e].pc # "idle" => run'[e].wf = run[e].wf
    /\ (run[e].pc = "schedule" /\ run'[e].pc # "schedule")
       => [error |-> run'[e].error, order |-> run'[e].executionOrder]
              = GetExecutionOrder(run[e].wf.nodes, run[e].wf.connections)
    /\ Scheduled(e) => run'[e].executionOrder = run[e].executionOrder
    /\ invoked'[e] # invoked[e]
       => /\ invoked'[e] = Append(invoked[e], run[e].executionOrder[run[e].done + 1])
          /\ run'[e].inputData = GatherInput(run[e].wf.connections, run[e].executionResults,
                                             run[e].executionOrder[run[e].done + 1])
    /\ returned'[e] # returned[e]
       => \E outputData \in OutputsOf(FindNode(run[e].wf.nodes, CurrentNodeId(run[e])),
                                      run[e].inputData) :
              run'[e].executionResults[CurrentNodeId(run[e])]
                  = Stamped(outputData, run[e].executionId)

\* C34: a run works on the workflow it was started with: no step, an update
\* or a deletion of the stored workflow included, changes the workflow the
\* run holds or the order computed from it, and the order, each executor
\* called, its input and its output come from that workflow.
C34_RunKeepsItsWorkflow == [][\A e \in ExecIds : RunsOnItsWorkflow(e)]_vars

\* C34 witness: the run of a workflow of two nodes has called the executor of
\* its second node while the workflow is no longer in storage.
C34_Witness ==
    \E e \in ExecIds :
        /\ run[e].pc = "executing"
        /\ Len(invoked[e]) = 2
        /\ Len(run[e].wf.nodes) = 2
        /\ workflow = NoWorkflow

====
